---- MODULE Spec2Model ----
(***************************************************************************)
(* Triologue Agent Gateway: the socket sessions, the stream (SSE)          *)
(* sessions with their Redis event log, the REST send endpoints, the       *)
(* agent registry and the upstream message router, as one state machine.   *)
(* Every handler runs to its next `await` in one step (Node's event loop). *)
(***************************************************************************)
EXTENDS Integers, Sequences, FiniteSets, TLC

\* ---------------------------------------------------------------- bounds
MaxSockets == 3
MaxStreams == 3
MaxMsgs == 2
MaxPosts == 3
MaxRecv == 3

Sockets == 1..MaxSockets
Streams == 1..MaxStreams
PostIds == 1..MaxPosts

\* ------------------------------------------------------- program constants
T0 == 100000
CooldownMs == 30000
PairWindowMs == 60000
PairCap == 5
StreamCap == 2
RateWindowMs == 60000
RateStandard == 10
RateElevated == 30
IdemTtlMs == 3600000
LogTtlMs == 86400000

Null == [null |-> TRUE]
Undef == "undefined"

\* ------------------------------------------------------------ the agents
\* AgentConfig entries as they come from agents.json or the config endpoint
Cfg(token, userId, username, url, trust, conn, recv, deliv, status) ==
  [token |-> token, userId |-> userId, username |-> username, mentionKey |-> username,
   webhookUrl |-> url, trustLevel |-> trust, connectionType |-> conn,
   receiveMode |-> recv, delivery |-> deliv, status |-> status]

CfgIce == Cfg("t_ice", "u_ice", "ice", Undef, "elevated", "websocket", "all", Undef, "active")
CfgLava == Cfg("t_lava", "u_lava", "lava", Undef, "elevated", Undef, Undef, "openclaw-inject", "active")
CfgBob == Cfg("t_bob", "u_bob", "bob", "http://bob", "standard", "webhook", "mentions", "webhook", "pending")
CfgRex == Cfg("t_rex", "u_rex", "rex", Undef, "elevated", "websocket", "all", Undef, "active")
CfgSam == Cfg("t_sam", "u_sam", "sam", Undef, "standard", "websocket", "mentions", Undef, "active")

\* the snapshots the config endpoint can answer with
SnapFull == <<CfgIce, CfgLava, CfgBob, CfgRex, CfgSam>>
SnapNoIce == <<CfgLava, CfgBob>>
Snapshots == {SnapFull, SnapNoIce}

Tokens == {"t_ice", "t_lava", "t_bob", "t_rex", "t_sam"}
UserIds == {"u_ice", "u_lava", "u_bob", "u_rex", "u_sam"}
Rooms == {"r1", "r2"}

\* a ?? b
Coalesce(v, d) == IF v = Undef THEN d ELSE v

\* src/src/auth.ts buildTokenIndex: the AgentInfo made of one AgentConfig
AgentInfoOf(a) ==
  [id |-> a.userId, userId |-> a.userId, username |-> a.username,
   mentionKey |-> a.mentionKey,
   webhookUrl |-> Coalesce(a.webhookUrl, "null"),
   trustLevel |-> a.trustLevel,
   connectionType |-> Coalesce(a.connectionType, "both"),
   receiveMode |-> Coalesce(a.receiveMode, "mentions"),
   delivery |-> Coalesce(a.delivery, "webhook")]

\* Map.set(key, value) on a Map kept as a sequence in insertion order
RECURSIVE MapSet(_, _, _)
MapSet(m, k, v) ==
  IF m = <<>> THEN <<[key |-> k, val |-> v]>>
  ELSE IF Head(m).key = k THEN <<[key |-> k, val |-> v]>> \o Tail(m)
  ELSE <<Head(m)>> \o MapSet(Tail(m), k, v)

MapHas(m, k) == \E i \in 1..Len(m) : m[i].key = k
MapGet(m, k) == IF MapHas(m, k) THEN m[CHOOSE i \in 1..Len(m) : m[i].key = k].val ELSE Null
MapDelete(m, k) == SelectSeq(m, LAMBDA e : e.key # k)
MapValues(m) == [i \in 1..Len(m) |-> m[i].val]

RECURSIVE IndexInto(_, _)
IndexInto(index, as) ==
  IF as = <<>> THEN index
  \* `a.token` of a null entry throws: the loop ends with what was set so far
  ELSE IF Head(as) = Null THEN index
  ELSE IndexInto(MapSet(index, Head(as).token, AgentInfoOf(Head(as))), Tail(as))

BuildNoClear(old, as) == IndexInto(old, as)
\* tokenMap.clear(); for (const a of agents) tokenMap.set(a.token, {...})
buildTokenIndex(old, as) == IndexInto(<<>>, as)

authenticateToken(index, token) == MapGet(index, token)

getAllAgents(index) == MapValues(index)

getWebhookAgents(index) ==
  SelectSeq(MapValues(index),
            LAMBDA a : /\ a.connectionType \in {"webhook", "both"}
                       /\ (a.webhookUrl # "null" \/ a.delivery = "openclaw-inject"))

\* ------------------------------------------------------ upstream messages
\* what the bridge hands to the router (message:new, normalised); `mentions`
\* is the set of names n for which content.toLowerCase() includes "@" + n
Msg(sender, senderId, senderType, room, mentions) ==
  [id |-> "-", senderUsername |-> sender, senderId |-> senderId, senderType |-> senderType,
   roomId |-> room, mentions |-> mentions]

MsgPool ==
  { Msg("alice", "h_alice", "human", "r1", {"bob", "lava"}),
    Msg("alice", "h_alice", "human", "r2", {}),
    Msg("ice", "u_ice", "ai", "r1", {"lava"}),
    Msg("lava", "u_lava", "ai", "r2", {}) }

MsgNames == <<"m1", "m2", "m3", "m4", "m5">>
MsgId(i) == MsgNames[i]

\* ------------------------------------------------------------------ state
VARIABLES
  now,          \* Date.now()
  agents,       \* auth.ts `agents`
  tokenMap,     \* auth.ts `tokenMap`
  phase,        \* where the process is: "load", "connect", "sync", "listening", "exited"
  socket,       \* bridge `socket`: the id of the current socket.io socket and its state
  reconnecting, \* bridge `reconnecting`
  reconnectAttempts,  \* bridge `reconnectAttempts`
  heartbeatInterval,  \* bridge `heartbeatInterval` is set
  reconnectTimers,    \* the delays of the pending setTimeout(doReconnect) calls
  pendingConnect,     \* the sockets whose createSocket promise is not settled
  authing,      \* the doReconnect calls that wait for authenticate()
  lastPong,     \* bridge `lastPong`
  lastHeard,    \* when a packet of the chat server last arrived on the bridge socket
  stopped,      \* bridge.disconnect() has been called
  wsState,      \* ws.readyState of every socket
  wsClient,     \* the connection handler's `client`
  wsTimer,      \* authTimeout still armed
  wsRooms,      \* the auth branch waits for bridge.getAgentRooms
  wsSending,    \* bridge.sendAsAgent calls of the socket in flight
  wsRecv,       \* frames received from the peers so far
  wsFrames,     \* frames written to the peer
  wsCode,       \* code of the first ws.close(code)
  clients,      \* index.ts `clients`: agentId -> WsClient, in insertion order
  clientSeq,    \* entries ever inserted into `clients`
  history,      \* the messages the chat server has emitted, in order
  routes,       \* the bridge.onMessage invocations
  lastExchange, \* loop-guard.ts
  exchangeCount,
  readState,    \* read-tracker `state`
  injects,      \* injectToSession calls
  whTasks,      \* dispatchWebhook calls
  whPosts,      \* POSTs made to webhook urls
  sseState,     \* the stream responses
  sseAgent,
  sseFrames,
  sseClients,   \* byoa-sse `sseClients`: agentId -> SSEClient[]
  sseGen,       \* identity of the array held in sseClients
  sseReplay,    \* replayMissedMessages calls
  fanouts,      \* fanoutToSSEClient calls
  redisQ,       \* commands sent on the `redis` connection, not yet answered
  eventId,      \* redis key sse:eventId
  eventLog,     \* redis keys sse:messages:<room>
  logExpire,
  idem,         \* redis keys idempotency:<agent>:<key>
  rateLimits,   \* byoa-sse `rateLimits`
  passed,       \* per principal, the times at which the limiter called next()
  posts,        \* requests to POST /byoa/sse/messages and POST /send
  replies,      \* the requests answered so far, in the order of their answers
  upSends,      \* calls of bridge.sendAsAgent
  metrics

wsVars == <<wsState, wsClient, wsTimer, wsRooms, wsSending, wsRecv, wsFrames, wsCode,
            clients, clientSeq>>
regVars == <<agents, tokenMap, phase>>
beatVars == <<lastPong, lastHeard, stopped>>
bridgeVars == <<socket, reconnecting, reconnectAttempts, heartbeatInterval,
                reconnectTimers, pendingConnect, authing, beatVars>>
procVars == <<regVars, bridgeVars>>
routeVars == <<history, routes, lastExchange, exchangeCount, readState, injects,
               whTasks, whPosts>>
sseVars == <<sseState, sseAgent, sseFrames, sseClients, sseGen, sseReplay>>
redisVars == <<fanouts, redisQ, eventId, eventLog, logExpire, idem>>
postVars == <<rateLimits, passed, posts, replies>>
vars == <<now, wsVars, procVars, routeVars, sseVars, redisVars, postVars, upSends, metrics>>

\* ----------------------------------------------------------- socket frames
Frame(type, code) == [type |-> type, code |-> code]
MsgFrame(id) == [type |-> "message", code |-> id]

\* index.ts safeSend: written only while the socket is OPEN
safeSend(st, frames, s, f) ==
  IF st[s] = "OPEN" THEN [frames EXCEPT ![s] = Append(@, f)] ELSE frames

\* a close that leaves the socket as it is
wsCloseNot(st, s) == st

\* ws.close(code): starts the closing handshake of an OPEN socket
wsClose(st, s) == IF st[s] = "OPEN" THEN [st EXCEPT ![s] = "CLOSING"] ELSE st
wsCloseCode(st, codes, s, c) == IF st[s] = "OPEN" THEN [codes EXCEPT ![s] = c] ELSE codes

Bump(m, field) == [m EXCEPT ![field] = @ + 1]

\* ----------------------------------------------------- socket connections
\* wss.on('connection'): the timer is armed, `client` is null
WsConnect(s) ==
  /\ wsState[s] = "NEW"
  /\ \A t \in Sockets : t < s => wsState[t] # "NEW"
  /\ wsState' = [wsState EXCEPT ![s] = "OPEN"]
  /\ wsTimer' = [wsTimer EXCEPT ![s] = TRUE]
  /\ UNCHANGED <<wsClient, wsRooms, wsSending, wsRecv, wsFrames, wsCode, clients, clientSeq>>
  /\ UNCHANGED <<now, procVars, routeVars, sseVars, redisVars, postVars, upSends, metrics>>

\* the authTimeout callback
WsAuthTimeout(s) ==
  /\ wsTimer[s]
  /\ wsTimer' = [wsTimer EXCEPT ![s] = FALSE]
  /\ wsFrames' = safeSend(wsState, wsFrames, s, Frame("auth_error", "timeout"))
  /\ wsState' = wsClose(wsState, s)
  /\ wsCode' = wsCloseCode(wsState, wsCode, s, 4001)
  /\ UNCHANGED <<wsClient, wsRooms, wsSending, wsRecv, clients, clientSeq>>
  /\ UNCHANGED <<now, procVars, routeVars, sseVars, redisVars, postVars, upSends, metrics>>

CanReceive(s) == wsState[s] \in {"OPEN", "CLOSING"} /\ wsRecv < MaxRecv

\* ws.on('message'), JSON.parse throws
WsInvalidJson(s) ==
  /\ CanReceive(s)
  /\ wsRecv' = wsRecv + 1
  /\ wsFrames' = safeSend(wsState, wsFrames, s, Frame("error", "INVALID_JSON"))
  /\ UNCHANGED <<wsState, wsClient, wsTimer, wsRooms, wsSending, wsCode, clients, clientSeq>>
  /\ UNCHANGED <<now, procVars, routeVars, sseVars, redisVars, postVars, upSends, metrics>>

\* existing.ws.close(4000, 'Replaced')
ReplaceClose(st, s) == wsClose(st, s)

\* ws.on('message'), {type: 'auth', token} while `client` is null
WsAuth(s, token) ==
  /\ CanReceive(s)
  /\ wsClient[s] = Null
  /\ wsRecv' = wsRecv + 1
  /\ wsTimer' = [wsTimer EXCEPT ![s] = FALSE]
  /\ LET agent == authenticateToken(tokenMap, token) IN
     IF agent = Null
     THEN /\ metrics' = Bump(metrics, "authFailures")
          /\ wsFrames' = safeSend(wsState, wsFrames, s, Frame("auth_error", "invalid"))
          /\ wsState' = wsClose(wsState, s)
          /\ wsCode' = wsCloseCode(wsState, wsCode, s, 4003)
          /\ UNCHANGED <<wsClient, wsRooms, clients, clientSeq>>
     ELSE LET existing == MapGet(clients, agent.userId)
              fr1 == IF existing = Null THEN wsFrames
                     ELSE safeSend(wsState, wsFrames, existing.sock, Frame("error", "REPLACED"))
              st1 == IF existing = Null THEN wsState ELSE ReplaceClose(wsState, existing.sock)
              cd1 == IF existing = Null THEN wsCode
                     ELSE wsCloseCode(wsState, wsCode, existing.sock, 4000)
              stamp == IF existing = Null THEN clientSeq + 1 ELSE existing.stamp
          IN /\ wsFrames' = fr1
             /\ wsState' = st1
             /\ wsCode' = cd1
             /\ wsClient' = [wsClient EXCEPT ![s] = [agent |-> agent, token |-> token]]
             /\ clients' = MapSet(clients, agent.userId, [sock |-> s, stamp |-> stamp])
             /\ clientSeq' = IF existing = Null THEN clientSeq + 1 ELSE clientSeq
             /\ wsRooms' = [wsRooms EXCEPT ![s] = TRUE]
             /\ metrics' = Bump(Bump(metrics, "activeConnections"), "totalConnections")
  /\ UNCHANGED wsSending
  /\ UNCHANGED <<now, procVars, routeVars, sseVars, redisVars, postVars, upSends>>

\* the auth branch after `await bridge.getAgentRooms(...)`
WsAuthOk(s) ==
  /\ wsRooms[s]
  /\ wsRooms' = [wsRooms EXCEPT ![s] = FALSE]
  /\ wsFrames' = safeSend(wsState, wsFrames, s, Frame("auth_ok", "-"))
  /\ UNCHANGED <<wsState, wsClient, wsTimer, wsSending, wsRecv, wsCode, clients, clientSeq>>
  /\ UNCHANGED <<now, procVars, routeVars, sseVars, redisVars, postVars, upSends, metrics>>

\* ws.on('message'), any frame but auth while `client` is null
WsNotAuthenticated(s) ==
  /\ CanReceive(s)
  /\ wsClient[s] = Null
  /\ wsRecv' = wsRecv + 1
  /\ wsFrames' = safeSend(wsState, wsFrames, s, Frame("error", "NOT_AUTHENTICATED"))
  /\ UNCHANGED <<wsState, wsClient, wsTimer, wsRooms, wsSending, wsCode, clients, clientSeq>>
  /\ UNCHANGED <<now, procVars, routeVars, sseVars, redisVars, postVars, upSends, metrics>>

\* ws.on('message'), {type: 'message'} of an authenticated client
WsMessage(s, valid) ==
  /\ CanReceive(s)
  /\ wsClient[s] # Null
  /\ wsRecv' = wsRecv + 1
  /\ IF valid
     THEN /\ wsSending' = [wsSending EXCEPT ![s] = @ + 1]
          /\ upSends' = upSends \cup {[via |-> "ws", id |-> s, n |-> wsRecv + 1,
                                       token |-> wsClient[s].token]}
          /\ UNCHANGED wsFrames
     ELSE /\ wsFrames' = safeSend(wsState, wsFrames, s, Frame("error", "INVALID_MESSAGE"))
          /\ UNCHANGED <<wsSending, upSends>>
  /\ UNCHANGED <<wsState, wsClient, wsTimer, wsRooms, wsCode, clients, clientSeq>>
  /\ UNCHANGED <<now, procVars, routeVars, sseVars, redisVars, postVars, metrics>>

\* the message branch after `await bridge.sendAsAgent(...)`
WsSendDone(s, ok) ==
  /\ wsSending[s] > 0
  /\ wsSending' = [wsSending EXCEPT ![s] = @ - 1]
  /\ wsFrames' = safeSend(wsState, wsFrames, s,
                          IF ok THEN Frame("message_sent", "-") ELSE Frame("error", "SEND_FAILED"))
  /\ UNCHANGED <<wsState, wsClient, wsTimer, wsRooms, wsRecv, wsCode, clients, clientSeq>>
  /\ UNCHANGED <<now, procVars, routeVars, sseVars, redisVars, postVars, upSends, metrics>>

\* ws.on('message'), pong (ignored) or an unknown type, a second auth included
WsOther(s, pong) ==
  /\ CanReceive(s)
  /\ wsClient[s] # Null
  /\ wsRecv' = wsRecv + 1
  /\ wsFrames' = IF pong THEN wsFrames
                 ELSE safeSend(wsState, wsFrames, s, Frame("error", "UNKNOWN_EVENT"))
  /\ UNCHANGED <<wsState, wsClient, wsTimer, wsRooms, wsSending, wsCode, clients, clientSeq>>
  /\ UNCHANGED <<now, procVars, routeVars, sseVars, redisVars, postVars, upSends, metrics>>

\* ws.on('close'): clients.delete(client.agent.userId)
CloseDelete(cl, s, uid) == MapDelete(cl, uid)

\* ws.on('close'): the peer went away, or the closing handshake ended
WsCloseEvent(s) ==
  /\ wsState[s] \in {"OPEN", "CLOSING"}
  /\ wsState' = [wsState EXCEPT ![s] = "CLOSED"]
  /\ wsTimer' = [wsTimer EXCEPT ![s] = FALSE]
  /\ IF wsClient[s] # Null
     THEN /\ clients' = CloseDelete(clients, s, wsClient[s].agent.userId)
          /\ metrics' = [metrics EXCEPT !.activeConnections = IF @ > 0 THEN @ - 1 ELSE 0,
                                        !.disconnects = @ + 1]
     ELSE UNCHANGED <<clients, metrics>>
  /\ UNCHANGED <<wsClient, wsRooms, wsSending, wsRecv, wsFrames, wsCode, clientSeq>>
  /\ UNCHANGED <<now, procVars, routeVars, sseVars, redisVars, postVars, upSends>>

\* ------------------------------------------------------------- loop guard
Names == {"ice", "lava", "bob", "rex", "sam", "alice"}
Pairs == {p \in SUBSET Names : Cardinality(p) = 2}

\* the guard without its cooldown check
shouldDeliverNoCooldown(le, ec, targetTrust, senderIsAgent, senderId, targetId) ==
  LET pair == {senderId, targetId}
      ex == IF now > ec[pair].reset THEN [count |-> 0, reset |-> now + PairWindowMs]
            ELSE ec[pair]
      deny == [ok |-> FALSE, le |-> le, ec |-> ec]
  IN IF senderId = targetId THEN deny
     ELSE IF ~senderIsAgent THEN [ok |-> TRUE, le |-> le, ec |-> ec]
     ELSE IF ex.count >= PairCap THEN deny
     ELSE [ok |-> TRUE,
           le |-> [le EXCEPT ![pair] = now],
           ec |-> [ec EXCEPT ![pair] = [count |-> ex.count + 1, reset |-> ex.reset]]]

\* src/src/loop-guard.ts shouldDeliver: the verdict and the maps it leaves
shouldDeliver(le, ec, targetTrust, senderIsAgent, senderId, targetId) ==
  LET pair == {senderId, targetId}
      ex == IF now > ec[pair].reset THEN [count |-> 0, reset |-> now + PairWindowMs]
            ELSE ec[pair]
      deny == [ok |-> FALSE, le |-> le, ec |-> ec]
  IN IF senderId = targetId THEN deny
     ELSE IF ~senderIsAgent THEN [ok |-> TRUE, le |-> le, ec |-> ec]
     ELSE IF now - le[pair] < CooldownMs THEN deny
     ELSE IF ex.count >= PairCap THEN deny
     ELSE [ok |-> TRUE,
           le |-> [le EXCEPT ![pair] = now],
           ec |-> [ec EXCEPT ![pair] = [count |-> ex.count + 1, reset |-> ex.reset]]]

\* ------------------------------------------------------------ the router
Mentioned(msg, a) == a.mentionKey \in msg.mentions \/ a.username \in msg.mentions

\* byoa-sse hasSSEClient
hasSSEClient(uid) == Len(sseClients[uid]) > 0

\* what one bridge.onMessage invocation changes while it runs
RouterState ==
  [fr |-> wsFrames, le |-> lastExchange, ec |-> exchangeCount, rs |-> readState,
   inj |-> injects, wt |-> whTasks, wp |-> whPosts, fo |-> fanouts, rq |-> redisQ]

NoTask == [pc |-> "idle", pos |-> 0, cur |-> Null, rest |-> <<>>, after |-> "null"]
Finished(G) == [g |-> G, task |-> [NoTask EXCEPT !.pc = "done"]]
Suspended(G, pc, pos, a, rest, after) ==
  [g |-> G, task |-> [pc |-> pc, pos |-> pos, cur |-> a, rest |-> rest, after |-> after]]

\* read-tracker getLastSeenMessageId / markMessageSeen
getLastSeenMessageId(rs, uid, room) == rs[<<uid, room>>]
markMessageSeen(G, uid, room, id) == [G EXCEPT !.rs[<<uid, room>>] = id]

\* injectToSession(injectMsg), not awaited
Inject(G, msg, a, ctx) ==
  [G EXCEPT !.inj = Append(@, [mid |-> msg.id, uid |-> a.userId, ctx |-> ctx])]

\* dispatchWebhook(...), not awaited: it runs up to its first fetch
Dispatch(G, msg, a, ctx) ==
  [G EXCEPT !.wt = @ \cup {[mid |-> msg.id, uid |-> a.userId, attempt |-> 0,
                            pc |-> "post", wake |-> 0, ctx |-> ctx]},
            !.wp = Append(@, [mid |-> msg.id, uid |-> a.userId, attempt |-> 0, ctx |-> ctx])]

\* a command on the redis connection and the call that waits for its reply
Cmd(kind, mid, uid, n) == [kind |-> kind, mid |-> mid, uid |-> uid, n |-> n]

\* fanoutToSSEClient(agentId, message), not awaited: it runs up to redis.incr
FanoutStart(G, msg, a) ==
  IF Len(sseClients[a.userId]) = 0 THEN G
  ELSE [G EXCEPT !.fo = @ \cup {[mid |-> msg.id, uid |-> a.userId, gen |-> sseGen[a.userId],
                                 pc |-> "incr", eid |-> 0]},
                 !.rq = Append(@, Cmd("fan", msg.id, a.userId, 0))]

SkipSenderFull(a, msg) == a.username = msg.senderUsername \/ a.userId = msg.senderId

RECURSIVE RunWs(_, _, _), RunSse(_, _, _), RunWh(_, _, _)

\* index.ts 160-243: the loop over getWebhookAgents()
RunWh(G, msg, as) ==
  IF as = <<>> THEN Finished(G)
  ELSE
    LET a == Head(as)
        sd == shouldDeliver(G.le, G.ec, a.trustLevel, msg.senderType = "ai",
                            msg.senderUsername, a.username)
        G1 == [G EXCEPT !.le = sd.le, !.ec = sd.ec]
        lastSeenId == getLastSeenMessageId(G1.rs, a.userId, msg.roomId)
        G2 == markMessageSeen(G1, a.userId, msg.roomId, msg.id)
    IN IF a.username = msg.senderUsername THEN RunWh(G, msg, Tail(as))
       ELSE IF ~sd.ok THEN RunWh(G1, msg, Tail(as))
       ELSE IF ~Mentioned(msg, a) THEN RunWh(G1, msg, Tail(as))
       ELSE IF MapHas(clients, a.userId) THEN RunWh(G1, msg, Tail(as))
       ELSE IF a.delivery = "openclaw-inject"
         THEN IF lastSeenId # "null"
              THEN Suspended(G1, "whFetch", 0, a, Tail(as), lastSeenId)
              ELSE RunWh(Inject(G2, msg, a, <<>>), msg, Tail(as))
       ELSE IF a.webhookUrl = "null" THEN RunWh(G1, msg, Tail(as))
       ELSE IF lastSeenId # "null"
         THEN Suspended(G1, "whFetch", 0, a, Tail(as), lastSeenId)
         ELSE RunWh(Dispatch(G2, msg, a, <<>>), msg, Tail(as))

\* index.ts 136-158: the loop over getAllAgents()
RunSse(G, msg, as) ==
  IF as = <<>> THEN RunWh(G, msg, getWebhookAgents(tokenMap))
  ELSE
    LET a == Head(as)
        mentioned == Mentioned(msg, a)
        sd == IF mentioned THEN [ok |-> TRUE, le |-> G.le, ec |-> G.ec]
              ELSE shouldDeliver(G.le, G.ec, a.trustLevel, msg.senderType = "ai",
                                 msg.senderUsername, a.username)
        G1 == [G EXCEPT !.le = sd.le, !.ec = sd.ec]
    IN IF \/ ~hasSSEClient(a.userId)
          \/ SkipSenderFull(a, msg)
          \/ MapHas(clients, a.userId)
          \/ (a.receiveMode = "mentions" /\ ~mentioned)
       THEN RunSse(G, msg, Tail(as))
       ELSE IF ~sd.ok THEN RunSse(G1, msg, Tail(as))
       ELSE RunSse(FanoutStart(G1, msg, a), msg, Tail(as))

\* index.ts 75-134: the loop over `clients`, from the entry after stamp `pos`
RunWs(G, msg, pos) ==
  LET todo == SelectSeq(clients, LAMBDA e : e.val.stamp > pos) IN
  IF todo = <<>> THEN RunSse(G, msg, getAllAgents(tokenMap))
  ELSE
    LET e == Head(todo).val
        a == wsClient[e.sock].agent
        mentioned == Mentioned(msg, a)
        sd == IF mentioned THEN [ok |-> TRUE, le |-> G.le, ec |-> G.ec]
              ELSE shouldDeliver(G.le, G.ec, a.trustLevel, msg.senderType = "ai",
                                 msg.senderUsername, a.username)
        G1 == [G EXCEPT !.le = sd.le, !.ec = sd.ec]
        lastSeenId == getLastSeenMessageId(G1.rs, a.userId, msg.roomId)
    IN IF SkipSenderFull(a, msg) \/ (a.receiveMode = "mentions" /\ ~mentioned)
       THEN RunWs(G, msg, e.stamp)
       ELSE IF ~sd.ok THEN RunWs(G1, msg, e.stamp)
       ELSE IF a.delivery = "openclaw-inject"
         THEN IF mentioned /\ lastSeenId # "null"
              THEN Suspended(G1, "wsFetch", e.stamp, a, <<>>, lastSeenId)
              ELSE RunWs(Inject(IF mentioned
                                THEN markMessageSeen(G1, a.userId, msg.roomId, msg.id)
                                ELSE G1, msg, a, <<>>), msg, e.stamp)
       ELSE RunWs([G1 EXCEPT !.fr = safeSend(wsState, @, e.sock, MsgFrame(msg.id))],
                  msg, e.stamp)

\* the state a router run leaves behind
Settle(mi, r) ==
  /\ routes' = [routes EXCEPT ![mi] = r.task]
  /\ wsFrames' = r.g.fr
  /\ lastExchange' = r.g.le
  /\ exchangeCount' = r.g.ec
  /\ readState' = r.g.rs
  /\ injects' = r.g.inj
  /\ whTasks' = r.g.wt
  /\ whPosts' = r.g.wp
  /\ fanouts' = r.g.fo
  /\ redisQ' = r.g.rq
  /\ UNCHANGED <<now, procVars, sseVars, eventId, eventLog, logExpire, idem, postVars,
                 upSends, metrics>>
  /\ UNCHANGED <<wsState, wsClient, wsTimer, wsRooms, wsSending, wsRecv, wsCode, clients,
                 clientSeq>>

\* the chat server emits message:new and the bridge calls the router with it
Upstream(m) ==
  /\ Len(history) < MaxMsgs
  /\ LET mi == Len(history) + 1
         msg == [m EXCEPT !.id = MsgId(mi)]
     IN /\ history' = Append(history, msg)
        /\ Settle(mi, RunWs(RouterState, msg, 0))

\* bridge.fetchMessagesSince(token, room, afterId, limit): the messages of the
\* room newer than afterId, oldest first, at most `limit`
FetchSince(room, afterId, limit) ==
  LET from == IF \E i \in 1..Len(history) : history[i].id = afterId
              THEN CHOOSE i \in 1..Len(history) : history[i].id = afterId ELSE 0
      newer == SelectSeq([i \in 1..Len(history) |-> [i |-> i, m |-> history[i]]],
                         LAMBDA x : x.i > from /\ x.m.roomId = room)
      ids == [i \in 1..Len(newer) |-> newer[i].m.id]
  IN IF Len(ids) > limit THEN SubSeq(ids, 1, limit) ELSE ids

FetchLimit == 50

\* the fetched messages, the current one among them
ContextAll(msg, after) == FetchSince(msg.roomId, after, FetchLimit)

\* unreadMessages.filter(m => m.id !== msg.id)
Context(msg, after) ==
  SelectSeq(FetchSince(msg.roomId, after, FetchLimit), LAMBDA id : id # msg.id)

\* index.ts 98-119: the socket loop goes on after `await fetchMessagesSince`
RouteWsFetched(mi, ok) ==
  /\ routes[mi].pc = "wsFetch"
  /\ UNCHANGED history
  /\ LET t == routes[mi]
         msg == history[mi]
         G == markMessageSeen(RouterState, t.cur.userId, msg.roomId, msg.id)
     IN IF ok
        THEN Settle(mi, RunWs(Inject(G, msg, t.cur, Context(msg, t.after)), msg, t.pos))
        ELSE Settle(mi, [g |-> RouterState, task |-> [NoTask EXCEPT !.pc = "failed"]])

\* index.ts 178-197, 207-242: the webhook loop goes on after the fetch
RouteWhFetched(mi, ok) ==
  /\ routes[mi].pc = "whFetch"
  /\ UNCHANGED history
  /\ LET t == routes[mi]
         msg == history[mi]
         G == markMessageSeen(RouterState, t.cur.userId, msg.roomId, msg.id)
         ctx == Context(msg, t.after)
     IN IF ok
        THEN Settle(mi, RunWh(IF t.cur.delivery = "openclaw-inject"
                              THEN Inject(G, msg, t.cur, ctx)
                              ELSE Dispatch(G, msg, t.cur, ctx), msg, t.rest))
        ELSE Settle(mi, [g |-> RouterState, task |-> [NoTask EXCEPT !.pc = "failed"]])

\* --------------------------------------------------------- webhook dispatch
MAX_RETRIES == 3
BASE_DELAY_MS == 1000

\* a backoff that grows by one unit per attempt
Linear(n) == n + 1

Pow2(n) == IF n = 0 THEN 1 ELSE IF n = 1 THEN 2 ELSE IF n = 2 THEN 4 ELSE 8

\* a dispatch that counts a lost message at every failed attempt
WhResponseLostEach(t, outcome) ==
  /\ t \in whTasks /\ t.pc = "post"
  /\ IF outcome = "2xx"
     THEN /\ whTasks' = whTasks \ {t}
          /\ metrics' = Bump(metrics, "messagesSent")
     ELSE IF outcome = "4xx"
     THEN /\ whTasks' = whTasks \ {t}
          /\ UNCHANGED metrics
     ELSE IF t.attempt < MAX_RETRIES
     THEN /\ whTasks' = (whTasks \ {t}) \cup
                        {[t EXCEPT !.pc = "sleep",
                                   !.wake = now + BASE_DELAY_MS * Pow2(t.attempt)]}
          /\ metrics' = Bump(Bump(metrics, "messageRetries"), "messagesLost")
     ELSE /\ whTasks' = whTasks \ {t}
          /\ metrics' = Bump(Bump(metrics, "messageRetries"), "messagesLost")
  /\ UNCHANGED <<history, routes, lastExchange, exchangeCount, readState, injects, whPosts>>
  /\ UNCHANGED <<now, wsVars, procVars, sseVars, redisVars, postVars, upSends>>

\* webhook-dispatch.ts 25-66: the answer to one POST attempt
WhResponse(t, outcome) ==
  /\ t \in whTasks /\ t.pc = "post"
  /\ IF outcome = "2xx"
     THEN /\ whTasks' = whTasks \ {t}
          /\ metrics' = Bump(metrics, "messagesSent")
     ELSE IF outcome = "4xx"
     THEN /\ whTasks' = whTasks \ {t}
          /\ UNCHANGED metrics
     ELSE IF t.attempt < MAX_RETRIES
     THEN /\ whTasks' = (whTasks \ {t}) \cup
                        {[t EXCEPT !.pc = "sleep",
                                   !.wake = now + BASE_DELAY_MS * Pow2(t.attempt)]}
          /\ metrics' = Bump(metrics, "messageRetries")
     ELSE /\ whTasks' = whTasks \ {t}
          /\ metrics' = Bump(Bump(metrics, "messageRetries"), "messagesLost")
  /\ UNCHANGED <<history, routes, lastExchange, exchangeCount, readState, injects, whPosts>>
  /\ UNCHANGED <<now, wsVars, procVars, sseVars, redisVars, postVars, upSends>>

\* webhook-dispatch.ts 63-66, 23-30: the backoff timer fires, the next POST goes out
WhRetry(t) ==
  /\ t \in whTasks /\ t.pc = "sleep"
  /\ now >= t.wake
  /\ whTasks' = (whTasks \ {t}) \cup {[t EXCEPT !.pc = "post", !.attempt = @ + 1, !.wake = 0]}
  /\ whPosts' = Append(whPosts, [mid |-> t.mid, uid |-> t.uid, attempt |-> t.attempt + 1,
                                 ctx |-> t.ctx])
  /\ UNCHANGED <<history, routes, lastExchange, exchangeCount, readState, injects>>
  /\ UNCHANGED <<now, wsVars, procVars, sseVars, redisVars, postVars, upSends, metrics>>

\* ------------------------------------------------------------ the registry
\* auth.ts syncFromApi: a good answer replaces `agents` and rebuilds the index,
\* anything else leaves both alone
syncFromApi(ok, snap) ==
  /\ IF ok
     THEN /\ agents' = snap
          /\ tokenMap' = buildTokenIndex(tokenMap, snap)
     ELSE UNCHANGED <<agents, tokenMap>>
  /\ UNCHANGED phase
  /\ UNCHANGED <<now, wsVars, routeVars, sseVars, redisVars, postVars, upSends, metrics>>
  /\ UNCHANGED bridgeVars

\* ------------------------------------------------------------- the streams
\* byoa-sse formatSSE(id, event, data): no id line for id 0
formatSSE(id, event, data) == [id |-> id, event |-> event, data |-> data]

\* the AgentMessage index.ts builds for fanoutToSSEClient
AgentMessage(msg) ==
  [id |-> msg.id, room |-> msg.roomId, sender |-> msg.senderUsername,
   senderType |-> IF msg.senderType = "ai" THEN "AI" ELSE "HUMAN",
   content |-> msg.mentions]

\* JSON.parse(JSON.stringify({...message, eventId})): the member kept in the log
WithEventId(am, eid) ==
  [id |-> am.id, room |-> am.room, sender |-> am.sender, senderType |-> am.senderType,
   content |-> am.content, eventId |-> eid]

MsgOfId(mid) == history[CHOOSE i \in 1..Len(history) : history[i].id = mid]

\* agent.status of an AgentInfo
StatusOf(agent) == IF "status" \in DOMAIN agent THEN agent.status ELSE Undef

\* byoa-sse authenticateSSE: the status it answers with, 0 for next()
AuthSSE(token) ==
  LET agent == authenticateToken(tokenMap, token) IN
  IF token = "none" THEN 401
  ELSE IF agent = Null THEN 401
  ELSE IF StatusOf(agent) # Undef /\ StatusOf(agent) # "active" THEN 403
  ELSE 0

AuthFailed(token) == token # "none" /\ AuthSSE(token) # 0

\* a redis key that holds something and has not expired
LiveKey(room) == eventLog[room] # {} /\ (logExpire[room] = 0 \/ now < logExpire[room])

CapLoose(n) == n > StreamCap
\* clients.length >= 2
CapReached(n) == n >= StreamCap

\* sseRouter.get('/stream'): authenticateSSE and the handler, up to redis.keys
SseOpen(s, token, hdr) ==
  /\ sseState[s] = "NEW"
  /\ \A t \in Streams : t < s => sseState[t] # "NEW"
  /\ LET agent == authenticateToken(tokenMap, token) IN
     IF AuthSSE(token) # 0
     THEN /\ sseState' = [sseState EXCEPT ![s] = IF AuthSSE(token) = 401 THEN "401" ELSE "403"]
          /\ metrics' = IF AuthFailed(token) THEN Bump(metrics, "authFailures") ELSE metrics
          /\ UNCHANGED <<sseAgent, sseFrames, sseClients, sseGen, sseReplay, redisQ>>
     ELSE IF CapReached(Len(sseClients[agent.userId]))
     THEN /\ sseState' = [sseState EXCEPT ![s] = "ended"]
          /\ sseAgent' = [sseAgent EXCEPT ![s] = agent]
          /\ sseFrames' = [sseFrames EXCEPT
                             ![s] = <<formatSSE(0, "error", "TOO_MANY_CONNECTIONS")>>]
          /\ UNCHANGED <<sseClients, sseGen, sseReplay, redisQ, metrics>>
     ELSE /\ sseState' = [sseState EXCEPT ![s] = "open"]
          /\ sseAgent' = [sseAgent EXCEPT ![s] = agent]
          /\ sseClients' = [sseClients EXCEPT ![agent.userId] = Append(@, s)]
          /\ sseFrames' = [sseFrames EXCEPT ![s] = <<formatSSE(0, "connected", agent.userId)>>]
          /\ metrics' = Bump(Bump(metrics, "activeConnections"), "totalConnections")
          /\ IF hdr > 0
             THEN /\ sseReplay' = [sseReplay EXCEPT
                                     ![s] = [pc |-> "keys", after |-> hdr, keys |-> <<>>,
                                             missed |-> {}]]
                  /\ redisQ' = Append(redisQ, Cmd("replay", "-", "-", s))
             ELSE UNCHANGED <<sseReplay, redisQ>>
          /\ UNCHANGED sseGen
  /\ UNCHANGED <<fanouts, eventId, eventLog, logExpire, idem>>
  /\ UNCHANGED <<now, wsVars, procVars, routeVars, postVars, upSends>>

\* the response of a registered stream stops being writable (the peer is gone,
\* a write has failed); the 'close' event of the request has not been handled
SseBreak(s) ==
  /\ sseState[s] = "open"
  /\ sseState' = [sseState EXCEPT ![s] = "broken"]
  /\ UNCHANGED <<sseAgent, sseFrames, sseClients, sseGen, sseReplay>>
  /\ UNCHANGED <<now, wsVars, procVars, routeVars, redisVars, postVars, upSends, metrics>>

\* req.on('close') of a registered stream
SseClose(s) ==
  /\ sseState[s] \in {"open", "broken"}
  /\ sseState' = [sseState EXCEPT ![s] = "ended"]
  /\ LET uid == sseAgent[s].userId
         remaining == SelectSeq(sseClients[uid], LAMBDA c : c # s)
     IN /\ sseClients' = [sseClients EXCEPT ![uid] = remaining]
        /\ sseGen' = IF sseClients[uid] # <<>> /\ remaining = <<>>
                     THEN [sseGen EXCEPT ![uid] = @ + 1] ELSE sseGen
  /\ metrics' = [metrics EXCEPT !.activeConnections = IF @ > 0 THEN @ - 1 ELSE 0,
                                !.disconnects = @ + 1]
  /\ UNCHANGED <<sseAgent, sseFrames, sseReplay>>
  /\ UNCHANGED <<now, wsVars, procVars, routeVars, redisVars, postVars, upSends>>

\* res.writable && !res.writableEnded
Writable(s) == sseState[s] = "open"

RECURSIVE WriteAll(_, _, _)
\* for (const client of clients) ... client.res.write(sseData)
WriteAll(frames, cs, f) ==
  IF cs = <<>> THEN frames
  ELSE WriteAll(IF Writable(Head(cs)) THEN [frames EXCEPT ![Head(cs)] = Append(@, f)]
                ELSE frames, Tail(cs), f)

Waiting(kind, mid, uid, n) == redisQ # <<>> /\ Head(redisQ) = Cmd(kind, mid, uid, n)

\* fanoutToSSEClient after `await redis.incr('sse:eventId')`
FanoutIncr(f) ==
  /\ f \in fanouts /\ f.pc = "incr"
  /\ Waiting("fan", f.mid, f.uid, 0)
  /\ eventId' = eventId + 1
  /\ fanouts' = (fanouts \ {f}) \cup {[f EXCEPT !.pc = "zadd", !.eid = eventId + 1]}
  /\ redisQ' = Append(Tail(redisQ), Head(redisQ))
  /\ UNCHANGED <<eventLog, logExpire, idem>>
  /\ UNCHANGED <<now, wsVars, procVars, routeVars, sseVars, postVars, upSends, metrics>>

\* fanoutToSSEClient after `await redis.zadd(...)`
FanoutZadd(f) ==
  /\ f \in fanouts /\ f.pc = "zadd"
  /\ Waiting("fan", f.mid, f.uid, 0)
  /\ LET room == MsgOfId(f.mid).roomId
         entry == WithEventId(AgentMessage(MsgOfId(f.mid)), f.eid)
     IN /\ eventLog' = [eventLog EXCEPT
                          ![room] = (IF LiveKey(room) THEN @ ELSE {}) \cup {entry}]
        /\ logExpire' = IF LiveKey(room) THEN logExpire ELSE [logExpire EXCEPT ![room] = 0]
  /\ fanouts' = (fanouts \ {f}) \cup {[f EXCEPT !.pc = "expire"]}
  /\ redisQ' = Append(Tail(redisQ), Head(redisQ))
  /\ UNCHANGED <<eventId, idem>>
  /\ UNCHANGED <<now, wsVars, procVars, routeVars, sseVars, postVars, upSends, metrics>>

\* fanoutToSSEClient after `await redis.expire(...)`: the frame goes to the
\* streams of the array the call took from sseClients when it started
FanoutWrite(f) ==
  /\ f \in fanouts /\ f.pc = "expire"
  /\ Waiting("fan", f.mid, f.uid, 0)
  /\ LET room == MsgOfId(f.mid).roomId
         cs == IF f.gen = sseGen[f.uid] THEN sseClients[f.uid] ELSE <<>>
     IN /\ logExpire' = IF LiveKey(room) THEN [logExpire EXCEPT ![room] = now + LogTtlMs]
                        ELSE logExpire
        /\ sseFrames' = WriteAll(sseFrames, cs,
                                 formatSSE(f.eid, "message", AgentMessage(MsgOfId(f.mid))))
  /\ fanouts' = fanouts \ {f}
  /\ redisQ' = Tail(redisQ)
  /\ UNCHANGED <<eventId, eventLog, idem>>
  /\ UNCHANGED <<sseState, sseAgent, sseClients, sseGen, sseReplay>>
  /\ UNCHANGED <<now, wsVars, procVars, routeVars, postVars, upSends, metrics>>

RECURSIVE SortByEventId(_)
\* missed.sort((a, b) => a.eventId - b.eventId)
SortByEventId(S) ==
  IF S = {} THEN <<>>
  ELSE LET m == CHOOSE x \in S : \A y \in S : x.eventId <= y.eventId
       IN <<m>> \o SortByEventId(S \ {m})

RECURSIVE WriteSeq(_, _, _)
\* replayMissedMessages 695-703: one frame per missed entry, the parsed entry as data
WriteSeq(frames, s, es) ==
  IF es = <<>> THEN frames
  ELSE WriteSeq(IF Writable(s)
                THEN [frames EXCEPT ![s] = Append(@, formatSSE(Head(es).eventId, "message",
                                                              Head(es)))]
                ELSE frames, s, Tail(es))

Perms(S) == {q \in [1..Cardinality(S) -> S] : \A i, j \in 1..Cardinality(S) : i # j => q[i] # q[j]}

ReplayDone == [pc |-> "done", after |-> 0, keys |-> <<>>, missed |-> {}]

\* replayMissedMessages after `await redis.keys('sse:messages:*')`
ReplayKeys(s) ==
  /\ sseReplay[s].pc = "keys"
  /\ Waiting("replay", "-", "-", s)
  /\ \E ks \in Perms({r \in Rooms : LiveKey(r)}) :
       IF ks = <<>>
       THEN /\ sseReplay' = [sseReplay EXCEPT ![s] = ReplayDone]
            /\ redisQ' = Tail(redisQ)
       ELSE /\ sseReplay' = [sseReplay EXCEPT ![s].pc = "range", ![s].keys = ks]
            /\ redisQ' = Append(Tail(redisQ), Head(redisQ))
  /\ UNCHANGED <<sseState, sseAgent, sseFrames, sseClients, sseGen>>
  /\ UNCHANGED <<fanouts, eventId, eventLog, logExpire, idem>>
  /\ UNCHANGED <<now, wsVars, procVars, routeVars, postVars, upSends, metrics>>

\* redis.zrangebyscore(key, afterEventId + 1, '+inf')
zrangebyscore(room, min) ==
  IF LiveKey(room) THEN {e \in eventLog[room] : e.eventId >= min} ELSE {}

\* replayMissedMessages after `await redis.zrangebyscore(...)` for one key;
\* after the last key the missed entries are sorted and written
ReplayRange(s) ==
  /\ sseReplay[s].pc = "range"
  /\ Waiting("replay", "-", "-", s)
  /\ LET t == sseReplay[s]
         missed == t.missed \cup zrangebyscore(Head(t.keys), t.after + 1)
     IN IF Len(t.keys) > 1
        THEN /\ sseReplay' = [sseReplay EXCEPT ![s].keys = Tail(t.keys), ![s].missed = missed]
             /\ redisQ' = Append(Tail(redisQ), Head(redisQ))
             /\ UNCHANGED sseFrames
        ELSE /\ sseReplay' = [sseReplay EXCEPT ![s] = ReplayDone]
             /\ redisQ' = Tail(redisQ)
             /\ sseFrames' = WriteSeq(sseFrames, s, SortByEventId(missed))
  /\ UNCHANGED <<sseState, sseAgent, sseClients, sseGen>>
  /\ UNCHANGED <<fanouts, eventId, eventLog, logExpire, idem>>
  /\ UNCHANGED <<now, wsVars, procVars, routeVars, postVars, upSends, metrics>>

\* ------------------------------------------------------ the send endpoints
IdemKeys == {"k1", "k2"}

RECURSIVE DropOld(_, _)
\* while (timestamps.length > 0 && timestamps[0] < now - windowMs) timestamps.shift()
DropOld(ts, t) ==
  IF ts # <<>> /\ Head(ts) < t - RateWindowMs THEN DropOld(Tail(ts), t) ELSE ts

\* a limiter that grants every principal the elevated quota
maxRequestsFlat(agent) == RateElevated

maxRequests(agent) == IF agent.trustLevel = "elevated" THEN RateElevated ELSE RateStandard

\* Math.ceil(ms / 1000) of a nonnegative number
CeilSeconds(ms) == (ms + 999) \div 1000

\* `at`: the `now` rateLimitMiddleware took for the request
NewPost == [st |-> "new", ep |-> "-", token |-> "-", uid |-> "-", key |-> "none",
            status |-> 0, body |-> [none |-> TRUE], after |-> {}, at |-> 0]

Completed == {q \in PostIds : posts[q].st = "done"}

Respond(r, status, body) ==
  [posts EXCEPT ![r].st = "done", ![r].status = status, ![r].body = body]

\* res.json(...) of request r went out in this step, or not yet
Answered(r) ==
  replies' = IF posts'[r].st = "done" THEN Append(replies, r) ELSE replies

SendCall(via, id, token) == [via |-> via, id |-> id, n |-> 0, token |-> token]

\* the idempotency entry redis still holds
IdemGet(uid, key) ==
  IF idem[<<uid, key>>].expire > now THEN idem[<<uid, key>>].body ELSE Null

\* sseRouter.post('/messages'): authenticateSSE, rateLimitMiddleware and the
\* handler, up to `await redis.get` or `await bridge.sendAsAgent`
PostMessages(r, token, key, valid) ==
  /\ posts[r].st = "new"
  /\ \A q \in PostIds : q < r => posts[q].st # "new"
  /\ LET agent == authenticateToken(tokenMap, token)
         req == [NewPost EXCEPT !.ep = "messages", !.token = token, !.key = key,
                                !.after = Completed]
         lreq == [req EXCEPT !.at = now]
         ts == DropOld(rateLimits[agent.userId], now)
     IN IF AuthSSE(token) # 0
        THEN /\ posts' = [posts EXCEPT ![r] = [req EXCEPT !.st = "done",
                                                         !.status = AuthSSE(token)]]
             /\ metrics' = IF AuthFailed(token) THEN Bump(metrics, "authFailures") ELSE metrics
             /\ UNCHANGED <<rateLimits, passed, redisQ, upSends>>
        ELSE /\ UNCHANGED metrics
             /\ IF Len(ts) >= maxRequests(agent)
                THEN /\ rateLimits' = [rateLimits EXCEPT ![agent.userId] = ts]
                     /\ UNCHANGED passed
                     /\ posts' = [posts EXCEPT
                          ![r] = [lreq EXCEPT !.st = "done", !.status = 429, !.uid = agent.userId,
                                             !.body = [error |-> "RATE_LIMITED",
                                                       retryAfter |-> CeilSeconds(
                                                         ts[1] + RateWindowMs - now)]]]
                     /\ UNCHANGED <<redisQ, upSends>>
                ELSE /\ rateLimits' = [rateLimits EXCEPT ![agent.userId] = Append(ts, now)]
                     /\ passed' = [passed EXCEPT ![agent.userId] = Append(@, now)]
                     /\ IF ~valid
                        THEN /\ posts' = [posts EXCEPT
                                  ![r] = [lreq EXCEPT !.st = "done", !.status = 400,
                                                     !.uid = agent.userId]]
                             /\ UNCHANGED <<redisQ, upSends>>
                        ELSE IF key # "none"
                        THEN /\ posts' = [posts EXCEPT
                                  ![r] = [lreq EXCEPT !.st = "get", !.uid = agent.userId]]
                             /\ redisQ' = Append(redisQ, Cmd("post", "-", "-", r))
                             /\ UNCHANGED upSends
                        ELSE /\ posts' = [posts EXCEPT
                                  ![r] = [lreq EXCEPT !.st = "send", !.uid = agent.userId]]
                             /\ upSends' = upSends \cup {SendCall("post", r, token)}
                             /\ UNCHANGED redisQ
  /\ UNCHANGED <<fanouts, eventId, eventLog, logExpire, idem>>
  /\ UNCHANGED <<now, wsVars, procVars, routeVars, sseVars>>
  /\ Answered(r)

\* the handler after `await redis.get(...)`: the cached answer, or the send
PostGot(r) ==
  /\ posts[r].st = "get"
  /\ Waiting("post", "-", "-", r)
  /\ redisQ' = Tail(redisQ)
  /\ LET existing == IdemGet(posts[r].uid, posts[r].key) IN
     IF existing # Null
     THEN /\ posts' = Respond(r, 200, existing)
          /\ UNCHANGED upSends
     ELSE /\ posts' = [posts EXCEPT ![r].st = "send"]
          /\ upSends' = upSends \cup {SendCall("post", r, posts[r].token)}
  /\ UNCHANGED <<fanouts, eventId, eventLog, logExpire, idem, rateLimits, passed>>
  /\ UNCHANGED <<now, wsVars, procVars, routeVars, sseVars, metrics>>
  /\ Answered(r)

\* crypto.randomUUID(): no two calls give the same id
randomUUID(r) == r

\* the handler after `await bridge.sendAsAgent(...)`
PostSent(r, ok) ==
  /\ posts[r].st = "send" /\ posts[r].ep = "messages"
  /\ LET response == [messageId |-> randomUUID(r), status |-> "sent"] IN
     IF ~ok
     THEN /\ posts' = Respond(r, 502, [error |-> "Failed to deliver message"])
          /\ UNCHANGED <<redisQ, metrics>>
     ELSE IF posts[r].key # "none"
     THEN /\ posts' = [posts EXCEPT ![r].st = "set", ![r].body = response]
          /\ redisQ' = Append(redisQ, Cmd("post", "-", "-", r))
          /\ UNCHANGED metrics
     ELSE /\ posts' = Respond(r, 201, response)
          /\ metrics' = Bump(metrics, "messagesSent")
          /\ UNCHANGED redisQ
  /\ UNCHANGED <<fanouts, eventId, eventLog, logExpire, idem, rateLimits, passed>>
  /\ UNCHANGED <<now, wsVars, procVars, routeVars, sseVars, upSends>>
  /\ Answered(r)

\* the handler after `await redis.set(key, response, 'EX', 3600)`
PostCached(r) ==
  /\ posts[r].st = "set"
  /\ Waiting("post", "-", "-", r)
  /\ redisQ' = Tail(redisQ)
  /\ idem' = [idem EXCEPT ![<<posts[r].uid, posts[r].key>>] =
                [body |-> posts[r].body, expire |-> now + IdemTtlMs]]
  /\ posts' = Respond(r, 201, posts[r].body)
  /\ metrics' = Bump(metrics, "messagesSent")
  /\ UNCHANGED <<fanouts, eventId, eventLog, logExpire, rateLimits, passed>>
  /\ UNCHANGED <<now, wsVars, procVars, routeVars, sseVars, upSends>>
  /\ Answered(r)

\* app.post('/send'), up to `await bridge.sendAsAgent`
LegacySend(r, token, valid) ==
  /\ posts[r].st = "new"
  /\ \A q \in PostIds : q < r => posts[q].st # "new"
  /\ LET agent == authenticateToken(tokenMap, token)
         req == [NewPost EXCEPT !.ep = "send", !.token = token, !.after = Completed]
     IN IF token = "none"
        THEN /\ posts' = [posts EXCEPT ![r] = [req EXCEPT !.st = "done", !.status = 401]]
             /\ UNCHANGED upSends
        ELSE IF agent = Null
        THEN /\ posts' = [posts EXCEPT ![r] = [req EXCEPT !.st = "done", !.status = 403]]
             /\ UNCHANGED upSends
        ELSE IF ~valid
        THEN /\ posts' = [posts EXCEPT ![r] = [req EXCEPT !.st = "done", !.status = 400,
                                                         !.uid = agent.userId]]
             /\ UNCHANGED upSends
        ELSE /\ posts' = [posts EXCEPT ![r] = [req EXCEPT !.st = "send", !.uid = agent.userId]]
             /\ upSends' = upSends \cup {SendCall("send", r, token)}
  /\ UNCHANGED <<rateLimits, passed>>
  /\ UNCHANGED <<now, wsVars, procVars, routeVars, sseVars, redisVars, metrics>>
  /\ Answered(r)

\* app.post('/send') after `await bridge.sendAsAgent(...)`
LegacySent(r, ok) ==
  /\ posts[r].st = "send" /\ posts[r].ep = "send"
  /\ posts' = IF ok THEN Respond(r, 200, [ok |-> TRUE])
              ELSE Respond(r, 500, [error |-> "send failed"])
  /\ UNCHANGED <<rateLimits, passed>>
  /\ UNCHANGED <<now, wsVars, procVars, routeVars, sseVars, redisVars, upSends, metrics>>
  /\ Answered(r)

\* ------------------------------------------------------------------- time
Instants == {T0 + 1000, T0 + CooldownMs, T0 + IdemTtlMs}

Tick ==
  /\ \E t \in Instants : t > now /\ now' = t
  /\ UNCHANGED <<wsVars, procVars, routeVars, sseVars, redisVars, postVars, upSends, metrics>>

\* ------------------------------------------------------------ the machine
IdleReplay == [pc |-> "idle", after |-> 0, keys |-> <<>>, missed |-> {}]
UserRooms == UserIds \X Rooms

\* the module-level state of index.ts, byoa-sse and loop-guard as constructed;
\* .read-tracker.json held a cursor for room r1 only
Constructed ==
  /\ reconnecting = FALSE
  /\ reconnectAttempts = 0
  /\ reconnectTimers = <<>>
  /\ pendingConnect = {}
  /\ authing = 0
  /\ stopped = FALSE
  /\ wsState = [s \in Sockets |-> "NEW"]
  /\ wsClient = [s \in Sockets |-> Null]
  /\ wsTimer = [s \in Sockets |-> FALSE]
  /\ wsRooms = [s \in Sockets |-> FALSE]
  /\ wsSending = [s \in Sockets |-> 0]
  /\ wsRecv = 0
  /\ wsFrames = [s \in Sockets |-> <<>>]
  /\ wsCode = [s \in Sockets |-> 0]
  /\ clients = <<>>
  /\ clientSeq = 0
  /\ history = <<>>
  /\ routes = [i \in 1..MaxMsgs |-> NoTask]
  /\ readState = [k \in UserRooms |-> IF k[2] = "r1" THEN "m0" ELSE "null"]
  /\ injects = <<>>
  /\ whTasks = {}
  /\ whPosts = <<>>
  /\ sseState = [s \in Streams |-> "NEW"]
  /\ sseAgent = [s \in Streams |-> Null]
  /\ sseFrames = [s \in Streams |-> <<>>]
  /\ sseClients = [u \in UserIds |-> <<>>]
  /\ sseGen = [u \in UserIds |-> 0]
  /\ sseReplay = [s \in Streams |-> IdleReplay]
  /\ fanouts = {}
  /\ redisQ = <<>>
  /\ eventId = 0
  /\ eventLog = [r \in Rooms |-> {}]
  /\ logExpire = [r \in Rooms |-> 0]
  /\ idem = [k \in UserIds \X IdemKeys |-> [body |-> Null, expire |-> 0]]
  /\ rateLimits = [u \in UserIds |-> <<>>]
  /\ passed = [u \in UserIds |-> <<>>]
  /\ posts = [r \in PostIds |-> NewPost]
  /\ replies = <<>>
  /\ upSends = {}
  /\ metrics = [authFailures |-> 0, activeConnections |-> 0, totalConnections |-> 0,
                disconnects |-> 0, messagesSent |-> 0, messagesLost |-> 0,
                messageRetries |-> 0]

\* the gateway is up: agents loaded and indexed, the bridge connected, the
\* server listening
Booted ==
  /\ agents = SnapFull
  /\ tokenMap = buildTokenIndex(<<>>, SnapFull)
  /\ phase = "listening"
  /\ socket = [id |-> 1, st |-> "connected"]
  /\ heartbeatInterval = TRUE
  /\ lastPong = T0
  /\ lastHeard = T0
  /\ Constructed

\* no exchange of any pair yet
Init ==
  /\ now = T0
  /\ lastExchange = [p \in Pairs |-> 0]
  /\ exchangeCount = [p \in Pairs |-> [count |-> 0, reset |-> 0]]
  /\ Booted

WsTokens == {"t_ice", "t_lava", "t_bad"}
HttpTokens == {"t_ice", "t_bob", "t_bad", "none"}
Outcomes == {"2xx", "4xx", "5xx", "error"}

SocketNext ==
  \/ \E s \in Sockets : WsConnect(s)
  \/ \E s \in Sockets : WsAuthTimeout(s)
  \/ \E s \in Sockets : WsInvalidJson(s)
  \/ \E s \in Sockets, t \in WsTokens : WsAuth(s, t)
  \/ \E s \in Sockets : WsAuthOk(s)
  \/ \E s \in Sockets : WsNotAuthenticated(s)
  \/ \E s \in Sockets, v \in BOOLEAN : WsMessage(s, v)
  \/ \E s \in Sockets, ok \in BOOLEAN : WsSendDone(s, ok)
  \/ \E s \in Sockets, pong \in BOOLEAN : WsOther(s, pong)
  \/ \E s \in Sockets : WsCloseEvent(s)

RouterNext ==
  \/ \E m \in MsgPool : Upstream(m)
  \/ \E i \in 1..MaxMsgs, ok \in BOOLEAN : RouteWsFetched(i, ok)
  \/ \E i \in 1..MaxMsgs, ok \in BOOLEAN : RouteWhFetched(i, ok)

WebhookNext ==
  \/ \E t \in whTasks, o \in Outcomes : WhResponse(t, o)
  \/ \E t \in whTasks : WhRetry(t)

StreamNext ==
  \/ \E s \in Streams, t \in HttpTokens, h \in 0..eventId : SseOpen(s, t, h)
  \/ \E s \in Streams : SseClose(s)
  \/ \E f \in fanouts : FanoutIncr(f)
  \/ \E f \in fanouts : FanoutZadd(f)
  \/ \E f \in fanouts : FanoutWrite(f)
  \/ \E s \in Streams : ReplayKeys(s)
  \/ \E s \in Streams : ReplayRange(s)

SendNext ==
  \/ \E r \in PostIds, t \in HttpTokens, k \in IdemKeys \cup {"none"}, v \in BOOLEAN :
       PostMessages(r, t, k, v)
  \/ \E r \in PostIds : PostGot(r)
  \/ \E r \in PostIds, ok \in BOOLEAN : PostSent(r, ok)
  \/ \E r \in PostIds : PostCached(r)
  \/ \E r \in PostIds, t \in HttpTokens, v \in BOOLEAN : LegacySend(r, t, v)
  \/ \E r \in PostIds, ok \in BOOLEAN : LegacySent(r, ok)

RegistryNext == \E ok \in BOOLEAN, snap \in Snapshots : syncFromApi(ok, snap)

Next ==
  \/ SocketNext
  \/ RouterNext
  \/ WebhookNext
  \/ StreamNext
  \/ SendNext
  \/ RegistryNext
  \/ Tick

Spec == Init /\ [][Next]_vars

\* ---------------------------------------------------- the socket sessions
\* sockets that authenticate as ice or with a bad token, and the chat server
\* emitting messages ice is to receive (alice in r2) or not (its own)
WsAuthTokens == {"t_ice", "t_bad"}
WsMsgs == {m \in MsgPool : m.senderUsername # "lava" /\ "bob" \notin m.mentions}

WsNext ==
  \/ \E s \in Sockets : WsConnect(s)
  \/ \E s \in Sockets : WsAuthTimeout(s)
  \/ \E s \in Sockets, t \in WsAuthTokens : WsAuth(s, t)
  \/ \E s \in Sockets : WsAuthOk(s)
  \/ \E s \in Sockets : WsCloseEvent(s)
  \/ \E m \in WsMsgs : Upstream(m)

SpecWs == Init /\ [][WsNext]_vars

\* ------------------------------------------------------ the stream sessions
\* ice (receives all) and lava (receives mentions) open and close streams
\* while the chat server emits messages of alice and of ice
SseTokens == {"t_ice", "t_lava"}
SseMsgs == {m \in MsgPool : m.roomId = "r1"}

SseNext ==
  \/ \E s \in Streams, t \in SseTokens, h \in 0..eventId : SseOpen(s, t, h)
  \/ \E s \in Streams : SseClose(s)
  \/ \E m \in SseMsgs : Upstream(m)
  \/ \E f \in fanouts : FanoutIncr(f)
  \/ \E f \in fanouts : FanoutZadd(f)
  \/ \E f \in fanouts : FanoutWrite(f)
  \/ \E s \in Streams : ReplayKeys(s)
  \/ \E s \in Streams : ReplayRange(s)

SpecSse == Init /\ [][SseNext]_vars

\* a socket that has authenticated and is still open
OpenAuthed(s) == wsState[s] = "OPEN" /\ wsClient[s] # Null
SameUser(s, t) ==
  wsClient[s] # Null /\ wsClient[t] # Null
  /\ wsClient[s].agent.userId = wsClient[t].agent.userId
\* the `clients` entries of the principal of socket s
EntriesOf(s) ==
  SelectSeq(clients, LAMBDA e : e.key = wsClient[s].agent.userId)

\* C1: at every instant no two sockets that are authenticated and open belong
\* to the same principal id.
C1_OneOpenSocketPerPrincipal ==
  \A s, t \in Sockets : (s # t /\ OpenAuthed(s) /\ OpenAuthed(t)) => ~SameUser(s, t)

\* C2: every socket that has authenticated and is still open has exactly one
\* entry in `clients` under its principal id, and that entry holds this socket.
C2_OpenSocketIsRegistered ==
  \A s \in Sockets :
    OpenAuthed(s) => Len(EntriesOf(s)) = 1 /\ EntriesOf(s)[1].val.sock = s

\* the socket that `clients` holds for the principal, 0 if none
LiveOf(uid) == IF MapHas(clients, uid) THEN MapGet(clients, uid).sock ELSE 0

\* U authenticates s2 while s1 is its live session: s1 gets REPLACED, then close 4000
ReplaceStep(s1, s2) ==
  (/\ s1 # s2
   /\ OpenAuthed(s1)
   /\ LiveOf(wsClient[s1].agent.userId) = s1
   /\ wsClient[s2] = Null /\ wsClient'[s2] # Null
   /\ wsClient'[s2].agent.userId = wsClient[s1].agent.userId)
  => /\ wsFrames'[s1] = Append(wsFrames[s1], Frame("error", "REPLACED"))
     /\ wsState'[s1] = "CLOSING"
     /\ wsCode'[s1] = 4000

\* the open socket s2 gets auth_ok when its auth branch ends
AuthOkStep(s2) ==
  (wsRooms[s2] /\ ~wsRooms'[s2] /\ wsState[s2] = "OPEN")
  => wsFrames'[s2] = Append(wsFrames[s2], Frame("auth_ok", "-"))

\* the chat server emits a message of a human that U is to receive by socket
RoutedTo(s) ==
  /\ Len(history') = Len(history) + 1
  /\ LET msg == history'[Len(history')]
         a == wsClient[s].agent
     IN /\ msg.senderType = "human"
        /\ ~SkipSenderFull(a, msg)
        /\ a.receiveMode = "all" \/ Mentioned(msg, a)
        /\ a.delivery # "openclaw-inject"

NewMsgFrame(s) ==
  /\ Len(history') = Len(history) + 1
  /\ wsFrames'[s] = Append(wsFrames[s], MsgFrame(history'[Len(history')].id))

\* s2 took over from s1 and is the only open socket of U
TookOver(s1, s2) ==
  /\ s1 # s2 /\ SameUser(s1, s2)
  /\ Frame("error", "REPLACED") \in {wsFrames[s1][i] : i \in 1..Len(wsFrames[s1])}
  /\ OpenAuthed(s2)
  /\ \A t \in Sockets \ {s2} : ~(OpenAuthed(t) /\ SameUser(t, s2))

\* C3: when U authenticates S2 while S1 is its live session, S1 is sent
\* error REPLACED and closed with 4000, S2 is sent auth_ok, and every message
\* routed to U by socket afterwards is written to S2 and not to S1.
C3_ReplaceOnReconnect ==
  [][\A s1, s2 \in Sockets :
       /\ ReplaceStep(s1, s2)
       /\ AuthOkStep(s2)
       /\ (TookOver(s1, s2) /\ RoutedTo(s2)) => (NewMsgFrame(s2) /\ ~NewMsgFrame(s1))]_vars

\* ------------------------------------------------- the stream connection cap
SpecCap ==
  Init /\ [][\/ \E s \in Streams, t \in HttpTokens : SseOpen(s, t, 0)
             \/ \E s \in Streams : SseClose(s)]_vars

Registered(s) == \E u \in UserIds : \E i \in 1..Len(sseClients[u]) : sseClients[u][i] = s
\* the stream got the error event of the connection limit, and nothing else
Refused(s) ==
  /\ Len(sseFrames[s]) = 1
  /\ sseFrames[s][1].event = "error" /\ sseFrames[s][1].data = "TOO_MANY_CONNECTIONS"
  /\ sseState[s] = "ended"
\* the request of stream s is answered in this step, for an agent that has n streams
ArrivesAt(s, n) ==
  /\ sseState[s] = "NEW" /\ sseAgent'[s] # Null
  /\ Len(sseClients[sseAgent'[s].userId]) = n

\* C4: no principal ever has more than 2 registered streams; a stream request
\* that arrives while its principal has 2 gets exactly one error event
\* TOO_MANY_CONNECTIONS, is ended, and is not registered then or later.
C4_StreamCap ==
  [][/\ \A u \in UserIds : Len(sseClients'[u]) <= 2
     /\ \A s \in Streams : ArrivesAt(s, 2) => Refused(s)' /\ sseClients' = sseClients
     /\ \A s \in Streams : Refused(s) => Refused(s)' /\ ~Registered(s)']_vars

C4_ThirdStreamRefused ==
  \E s \in Streams : Refused(s) /\ Len(sseClients[sseAgent[s].userId]) = 2

\* ------------------------------------------------------ what is delivered
AgentOf(uid) == AgentInfoOf(CHOOSE c \in {CfgIce, CfgLava, CfgBob, CfgRex, CfgSam} : c.userId = uid)
MessageIdx(s) == {i \in 1..Len(sseFrames[s]) : sseFrames[s][i].event = "message"}

\* [mid, uid]: message mid went to agent uid by socket, stream, webhook or inject
WsDeliveries ==
  UNION {{[mid |-> wsFrames[s][i].code, uid |-> wsClient[s].agent.userId] :
            i \in {j \in 1..Len(wsFrames[s]) : wsFrames[s][j].type = "message"}} :
         s \in {x \in Sockets : wsClient[x] # Null}}
SseDeliveries ==
  UNION {{[mid |-> sseFrames[s][i].data.id, uid |-> sseAgent[s].userId] : i \in MessageIdx(s)} :
         s \in {x \in Streams : sseAgent[x] # Null}}
WhDeliveries == {[mid |-> whPosts[i].mid, uid |-> whPosts[i].uid] : i \in 1..Len(whPosts)}
InjectDeliveries == {[mid |-> injects[i].mid, uid |-> injects[i].uid] : i \in 1..Len(injects)}
Deliveries == WsDeliveries \cup SseDeliveries \cup WhDeliveries \cup InjectDeliveries

\* C5: whenever a message frame with event id N is written to a stream, the
\* event log holds an entry with id N at that moment and no frame written
\* earlier on that stream has an id greater than N.
C5_LoggedAndAscending ==
  [][\A s \in Streams : \A i \in (Len(sseFrames[s]) + 1)..Len(sseFrames'[s]) :
       sseFrames'[s][i].event = "message"
       => /\ \E r \in Rooms : LiveKey(r) /\ \E e \in eventLog[r] :
                                             e.eventId = sseFrames'[s][i].id
          /\ \A j \in 1..(i - 1) : sseFrames'[s][j].id <= sseFrames'[s][i].id]_vars

\* C6: every message delivered to an agent, by whatever path, was not sent by
\* that agent (by username or by id), and the agent receives all messages or
\* is mentioned in it.
C6_DeliveredPassesFilters ==
  \A d \in Deliveries :
    LET a == AgentOf(d.uid)
        msg == MsgOfId(d.mid)
    IN /\ a.username # msg.senderUsername /\ a.userId # msg.senderId
       /\ a.receiveMode = "all" \/ Mentioned(msg, a)

\* agent uid had a stream, and has none now
WentOffline(uid) ==
  /\ sseClients[uid] = <<>>
  /\ \E s \in Streams : sseAgent[s] # Null /\ sseAgent[s].userId = uid
                        /\ sseState[s] = "ended" /\ ~Refused(s)

\* the chat server emits a message of a human that passes the filters of uid
PassesTo(uid) ==
  /\ Len(history') = Len(history) + 1
  /\ LET msg == history'[Len(history')]
         a == AgentOf(uid)
     IN /\ msg.senderType = "human"
        /\ ~SkipSenderFull(a, msg)
        /\ a.receiveMode = "all" \/ Mentioned(msg, a)
        /\ ~MapHas(clients, uid)

\* C7: a message that passes the filters of an agent whose stream has gone is
\* still given an event id and kept in the event log (the fanout call for it
\* is under way when the router returns), to be replayed on reconnect.
C7_OfflineMessagesAreLogged ==
  [][\A uid \in UserIds :
       (WentOffline(uid) /\ PassesTo(uid))
       => \E f \in fanouts' : f.uid = uid /\ f.mid = history'[Len(history')].id]_vars

\* C8: a message frame written by replay carries the same data as the frame
\* live fanout wrote for the same event id.
C8_ReplayedDataIsLiveData ==
  \A s, t \in Streams : \A i \in MessageIdx(s), j \in MessageIdx(t) :
    sseFrames[s][i].id = sseFrames[t][j].id => sseFrames[s][i].data = sseFrames[t][j].data

\* ------------------------------------------------------- idempotent sends
\* ice and bob post valid messages with idempotency keys; `now` stands still,
\* so every request falls inside the TTL of every entry
PostTokens == {"t_ice", "t_bob"}

PostNext ==
  \/ \E r \in PostIds, t \in PostTokens, k \in IdemKeys : PostMessages(r, t, k, TRUE)
  \/ \E r \in PostIds : PostGot(r)
  \/ \E r \in PostIds, ok \in BOOLEAN : PostSent(r, ok)
  \/ \E r \in PostIds : PostCached(r)

SpecPost == Init /\ [][PostNext]_vars

\* position of request r in the order of the answers
ReplyPos(r) == CHOOSE i \in 1..Len(replies) : replies[i] = r
Success(r) == posts[r].st = "done" /\ posts[r].ep = "messages" /\ posts[r].status = 201
SameKey(q, r) == posts[q].uid = posts[r].uid /\ posts[q].key = posts[r].key
\* the first request of its principal and key that was answered with success
FirstSuccess(r) ==
  /\ Success(r) /\ posts[r].key # "none"
  /\ \A q \in PostIds \ {r} : (Success(q) /\ SameKey(q, r)) => ReplyPos(r) < ReplyPos(q)

\* C9: a request of P with key K that arrives after the first success of
\* (P, K), inside the TTL, and is answered with 200 or 201, is answered with
\* the body of that first success.
C9_RetryGetsFirstBody ==
  \A f, r \in PostIds :
    (/\ FirstSuccess(f)
     /\ posts[r].st = "done" /\ posts[r].ep = "messages" /\ posts[r].status \in {200, 201}
     /\ SameKey(f, r)
     /\ f \in posts[r].after)
    => posts[r].body = posts[f].body

\* ------------------------------------------------------- token revocation
\* the registry is refreshed while requests with the tokens of ice and lava
\* arrive at the four entry points, MaxArrivals of them in all
MaxArrivals == 3
AuthTokens == {"t_ice", "t_lava"}
Arrivals ==
  Cardinality({s \in Sockets : wsState[s] # "NEW"})
  + Cardinality({s \in Streams : sseState[s] # "NEW"})
  + Cardinality({r \in PostIds : posts[r].st # "new"})

AuthNext ==
  \/ RegistryNext
  \/ \E r \in PostIds, t \in AuthTokens :
       Arrivals < MaxArrivals /\ PostMessages(r, t, "none", TRUE)
  \/ \E r \in PostIds, t \in AuthTokens : Arrivals < MaxArrivals /\ LegacySend(r, t, TRUE)
  \/ \E s \in Streams, t \in AuthTokens : Arrivals < MaxArrivals /\ SseOpen(s, t, 0)
  \/ \E s \in Sockets : Arrivals < MaxArrivals /\ WsConnect(s)
  \/ \E s \in Sockets, t \in AuthTokens : WsAuth(s, t)
  \/ \E r \in PostIds : PostSent(r, TRUE)
  \/ \E r \in PostIds : LegacySent(r, TRUE)

SpecAuth == Init /\ [][AuthNext]_vars

\* the last snapshot the registry took does not hold token T
Revoked(T) == \A i \in 1..Len(agents) : agents[i].token # T

\* C10: once a refresh has dropped token T, a request that arrives with T at
\* POST /byoa/sse/messages, GET /byoa/sse/stream, POST /send or as a socket
\* auth is refused (401, 401, 403, auth_error and close) and starts no
\* upstream send: the token is looked up anew on every request.
C10_RevokedTokenRefused ==
  [][\A T \in Tokens : Revoked(T) =>
       /\ \A r \in PostIds, k \in IdemKeys \cup {"none"}, v \in BOOLEAN :
            PostMessages(r, T, k, v)
            => posts'[r].st = "done" /\ posts'[r].status = 401 /\ upSends' = upSends
       /\ \A r \in PostIds, v \in BOOLEAN :
            LegacySend(r, T, v)
            => posts'[r].st = "done" /\ posts'[r].status = 403 /\ upSends' = upSends
       /\ \A s \in Streams, h \in 0..1 :
            SseOpen(s, T, h)
            => sseState'[s] = "401" /\ sseClients' = sseClients /\ sseFrames'[s] = <<>>
       /\ \A s \in Sockets :
            WsAuth(s, T)
            => /\ wsClient'[s] = Null /\ clients' = clients /\ wsState'[s] # "OPEN"
               /\ upSends' = upSends]_vars

\* a request with the token of ice was refused after a refresh had dropped it
C10_RefusedAfterRefresh ==
  /\ Revoked("t_ice")
  /\ \E r \in PostIds : posts[r].token = "t_ice" /\ posts[r].status = 401
  /\ \E r \in PostIds : posts[r].token = "t_ice" /\ posts[r].status \in {200, 201}

\* ------------------------------------------------------ inactive principals
\* the registry snapshot holds the token / the principal with a status other
\* than `active`
InactiveToken(token) ==
  \E i \in 1..Len(agents) : agents[i].token = token /\ agents[i].status # "active"
InactiveUser(uid) ==
  \E i \in 1..Len(agents) : agents[i].userId = uid /\ agents[i].status # "active"

\* C11: a request with the token of a principal whose status in the registry
\* snapshot is not `active` is answered 401 or 403, no stream is registered
\* for that principal and nothing of it is forwarded upstream.
C11_InactiveRejected ==
  /\ \A r \in PostIds :
       (posts[r].st # "new" /\ InactiveToken(posts[r].token))
       => posts[r].st = "done" /\ posts[r].status \in {401, 403}
  /\ \A s \in Streams : Registered(s) => ~InactiveUser(sseAgent[s].userId)
  /\ \A c \in upSends : ~InactiveToken(c.token)

\* ------------------------------------------------- trust and the loop guard
\* ice and rex (elevated, socket, receive all) connect; the chat server emits
\* what ice and rex write in r2: "@rex ping", "ack", "@ice ack", and mentions
\* of lava (elevated, local inject) and of bob (standard, webhook) by ice
GuardTokens == {"t_ice", "t_rex"}
GuardMsgs ==
  { Msg("ice", "u_ice", "ai", "r2", {"rex"}),
    Msg("rex", "u_rex", "ai", "r2", {}),
    Msg("rex", "u_rex", "ai", "r2", {"ice"}),
    Msg("ice", "u_ice", "ai", "r2", {"lava"}),
    Msg("ice", "u_ice", "ai", "r2", {"bob"}) }

GuardNext ==
  \/ \E s \in Sockets : WsConnect(s)
  \/ \E s \in Sockets, t \in GuardTokens : WsAuth(s, t)
  \/ \E m \in GuardMsgs : Upstream(m)
  \/ \E i \in 1..MaxMsgs, ok \in BOOLEAN : RouteWhFetched(i, ok)
  \/ Tick

SpecGuard == Init /\ [][GuardNext]_vars

\* C12: no message of an AI sender is ever delivered to an agent of standard
\* trust, by socket, stream, webhook or inject, mentioned or not.
C12_StandardGetsHumanOnly ==
  \A d \in Deliveries :
    AgentOf(d.uid).trustLevel = "standard" => MsgOfId(d.mid).senderType = "human"

\* ------------------------------------------------- the loop-guard decision
\* what the maps of the loop guard can hold for one pair at T0: nothing, an
\* exchange 1 s ago, one 30 s ago, the second exchange of a window 10 s ago
GuardEntries ==
  { [le |-> 0, ec |-> [count |-> 0, reset |-> 0]],
    [le |-> T0 - 1000, ec |-> [count |-> 1, reset |-> T0 - 1000 + PairWindowMs]],
    [le |-> T0 - CooldownMs, ec |-> [count |-> 1, reset |-> T0 - CooldownMs + PairWindowMs]],
    [le |-> T0 - 10000, ec |-> [count |-> 2, reset |-> T0 + 20000]] }

FnSenders == {"ice", "alice"}
FnTargets == {"ice", "rex", "bob"}
FnPairs == {{"ice", "rex"}, {"ice", "bob"}}

FnInit ==
  /\ now = T0
  /\ \E f \in [FnPairs -> GuardEntries] :
       /\ lastExchange = [p \in Pairs |-> IF p \in FnPairs THEN f[p].le ELSE 0]
       /\ exchangeCount = [p \in Pairs |-> IF p \in FnPairs THEN f[p].ec
                                           ELSE [count |-> 0, reset |-> 0]]
  /\ Booted

\* one call shouldDeliver(targetTrust, senderIsAgent, senderId, targetId)
GuardCall(targetTrust, senderIsAgent, senderId, targetId) ==
  /\ LET sd == shouldDeliver(lastExchange, exchangeCount, targetTrust, senderIsAgent,
                             senderId, targetId)
     IN /\ lastExchange' = sd.le
        /\ exchangeCount' = sd.ec
  /\ UNCHANGED <<history, routes, readState, injects, whTasks, whPosts>>
  /\ UNCHANGED <<now, wsVars, procVars, sseVars, redisVars, postVars, upSends, metrics>>

FnNext ==
  \/ \E tr \in {"standard", "elevated"}, ia \in BOOLEAN, S \in FnSenders, T \in FnTargets :
       GuardCall(tr, ia, S, T)
  \/ Tick

SpecFn == FnInit /\ [][FnNext]_vars

\* C13: for an AI sender S and a target T of standard trust the loop guard
\* answers deny, whatever S, T and its maps are; for a human sender and S # T
\* it answers allow.
C13_StandardDeniedHumanAllowed ==
  \A S, T \in Names :
    /\ ~shouldDeliver(lastExchange, exchangeCount, "standard", TRUE, S, T).ok
    /\ S # T => \A tr \in {"standard", "elevated"} :
                  shouldDeliver(lastExchange, exchangeCount, tr, FALSE, S, T).ok

\* ------------------------------------------------------ the mention bypass
\* the router has gone through all three loops for message i
Routed(i) == i <= Len(history) /\ routes[i].pc = "done"

\* message msg is written by an elevated AI agent and mentions elevated agent c
ElevatedMention(msg, c) ==
  /\ msg.senderType = "ai"
  /\ AgentOf(msg.senderId).trustLevel = "elevated"
  /\ c.trustLevel = "elevated"
  /\ ~SkipSenderFull(c, msg)
  /\ Mentioned(msg, c)

\* agent c is among getWebhookAgents(): a webhook or a local inject applies
\* to it whenever it has no socket
IsWebhookAgent(c) ==
  \E i \in 1..Len(getWebhookAgents(tokenMap)) : getWebhookAgents(tokenMap)[i].userId = c.userId

\* C14: a message of an elevated AI agent that mentions elevated agent C is
\* delivered to C once it is routed, on the webhook and inject path too,
\* however recent the last exchange of the pair is.
C14_MentionBypassesGuard ==
  \A i \in 1..MaxMsgs : \A uid \in UserIds :
    (/\ Routed(i)
     /\ ElevatedMention(history[i], AgentOf(uid))
     /\ IsWebhookAgent(AgentOf(uid)))
    => [mid |-> history[i].id, uid |-> uid] \in Deliveries

\* ------------------------------------------------------------ the cooldown
\* ice connects; rex writes "ack" and "@ice ack", ice writes "@lava ..."
CoolMsgs == {m \in GuardMsgs : m.senderUsername = "rex" \/ "lava" \in m.mentions}

CoolNext ==
  \/ \E s \in Sockets : WsConnect(s)
  \/ \E s \in Sockets : WsAuth(s, "t_ice")
  \/ \E m \in CoolMsgs : Upstream(m)
  \/ \E i \in 1..MaxMsgs, ok \in BOOLEAN : RouteWhFetched(i, ok)
  \/ Tick

SpecCool == Init /\ [][CoolNext]_vars

\* the loop guard permits an exchange of pair p in this step
Permits(p) == exchangeCount'[p] # exchangeCount[p]

\* the usernames of the sender of message mid and of agent uid
PairOf(mid, uid) == {MsgOfId(mid).senderUsername, AgentOf(uid).username}

PingThenAck ==
  /\ Len(history) = 2
  /\ history[1].senderUsername = "ice" /\ history[1].mentions = {"rex"}
  /\ [mid |-> history[1].id, uid |-> "u_rex"] \in WsDeliveries
  /\ history[2].senderUsername = "rex" /\ history[2].mentions = {}
  /\ now < T0 + CooldownMs

\* C16: after "@y ping" of X was delivered to Y by the mention bypass, an
\* "ack" of Y that mentions nobody and comes less than 30 s later is not
\* delivered to X.
C16_AckInsideCooldownDenied ==
  PingThenAck => [mid |-> history[2].id, uid |-> "u_ice"] \notin Deliveries

\* ------------------------------------------------- routing and the sockets
\* bob (webhook url, receives mentions) and lava (local inject) connect and
\* disconnect their sockets while alice writes in r1, where both have a read
\* cursor: a plain message, and one that mentions bob and lava
RouteTokens == {"t_bob", "t_lava"}
RouteMsgs ==
  { Msg("alice", "h_alice", "human", "r1", {"bob", "lava"}),
    Msg("alice", "h_alice", "human", "r1", {}) }

RouteNext ==
  \/ \E s \in Sockets : WsConnect(s)
  \/ \E s \in Sockets, t \in RouteTokens : WsAuth(s, t)
  \/ \E s \in Sockets : WsCloseEvent(s)
  \/ \E m \in RouteMsgs : Upstream(m)
  \/ \E i \in 1..MaxMsgs, ok \in BOOLEAN : RouteWsFetched(i, ok)
  \/ \E i \in 1..MaxMsgs, ok \in BOOLEAN : RouteWhFetched(i, ok)

SpecRoute == Init /\ [][RouteNext]_vars

\* C17: a message written to the socket of agent C is not also delivered to C
\* by stream fanout or by webhook, however the routing of the message is
\* interleaved with C's socket connecting and closing.
C17_SocketDeliveryIsTheOnlyOne ==
  \A d \in WsDeliveries : d \notin SseDeliveries \cup WhDeliveries

\* ------------------------------------------------- routing and the streams
\* bob opens and closes streams while alice writes messages that mention bob
\* and lava, in r2 (no read cursor yet) and in r1 (cursor m0)
PrecTokens == {"t_bob"}
PrecMsgs ==
  { Msg("alice", "h_alice", "human", "r2", {"bob", "lava"}),
    Msg("alice", "h_alice", "human", "r1", {"bob", "lava"}) }

PrecNext ==
  \/ \E s \in Streams, t \in PrecTokens : SseOpen(s, t, 0)
  \/ \E s \in Streams : SseClose(s)
  \/ \E m \in PrecMsgs : Upstream(m)
  \/ \E f \in fanouts : FanoutIncr(f)
  \/ \E f \in fanouts : FanoutZadd(f)
  \/ \E f \in fanouts : FanoutWrite(f)
  \/ \E i \in 1..MaxMsgs, ok \in BOOLEAN : RouteWhFetched(i, ok)

SpecPrec == Init /\ [][PrecNext]_vars

\* C18: for a message and a candidate one transport branch is taken: what
\* stream fanout delivers to an agent without socket is not also dispatched
\* to its webhook nor injected locally.
C18_StreamExcludesWebhook ==
  \A d \in SseDeliveries : d \notin WhDeliveries \cup InjectDeliveries

\* ------------------------------------------------- the context of a mention
\* alice writes in r1, where bob and lava have their cursor at m0, and
\* mentions bob in r2, where there is no cursor yet; the bridge answers the
\* fetches of the router, or fails
CtxMsgs ==
  RouteMsgs \cup { Msg("alice", "h_alice", "human", "r2", {"bob"}),
                   Msg("alice", "h_alice", "human", "r2", {}) }

CtxNext ==
  \/ \E m \in CtxMsgs : Upstream(m)
  \/ \E i \in 1..MaxMsgs, ok \in BOOLEAN : RouteWhFetched(i, ok)

SpecCtx == Init /\ [][CtxNext]_vars

\* the first POST of a webhook dispatch goes out in this step, as entry i
FirstPost(i) == i > Len(whPosts) /\ i <= Len(whPosts') /\ whPosts'[i].attempt = 0

\* the cursor the router read for the mention of agent uid it dispatches in
\* this step: before its fetch, or in this very step when there is none
CursorRead(mid, uid) ==
  IF history' = history
  THEN LET mi == CHOOSE i \in 1..Len(history) : history[i].id = mid IN routes[mi].after
  ELSE readState[<<uid, history'[Len(history')].roomId>>]

LastMentionOf(i, a) ==
  /\ Mentioned(history[i], a)
  /\ \A j \in (i + 1)..Len(history) :
       ~(history[j].roomId = history[i].roomId /\ Mentioned(history[j], a))

\* C20: when a mention has been routed and was written to the socket of the
\* agent, as a frame that carries the message alone, the read cursor of the
\* agent for the room is the id of that message.
C20_SocketMentionAdvancesCursor ==
  \A i \in 1..Len(history) : \A uid \in UserIds :
    (/\ Routed(i)
     /\ [mid |-> history[i].id, uid |-> uid] \in WsDeliveries
     /\ LastMentionOf(i, AgentOf(uid)))
    => readState[<<uid, history[i].roomId>>] = history[i].id

\* ------------------------------------------------------ webhook dispatch
\* time passes until the earliest backoff timer of a dispatch is due
SleepElapses ==
  /\ \E t \in whTasks :
       /\ t.pc = "sleep" /\ now < t.wake
       /\ \A u \in whTasks : u.pc = "sleep" => t.wake <= u.wake
       /\ now' = t.wake
  /\ UNCHANGED <<wsVars, procVars, routeVars, sseVars, redisVars, postVars, upSends, metrics>>

\* alice mentions bob in r2, one dispatch after the other; the webhook of bob
\* answers each POST with 2xx, 4xx, 5xx or not at all, and the backoff timers
\* run
WhMsgs == {Msg("alice", "h_alice", "human", "r2", {"bob"})}

WhNext ==
  \/ \E m \in WhMsgs : whTasks = {} /\ Upstream(m)
  \/ \E i \in 1..MaxMsgs, ok \in BOOLEAN : RouteWhFetched(i, ok)
  \/ \E t \in whTasks, o \in Outcomes : WhResponse(t, o)
  \/ \E t \in whTasks : WhRetry(t)
  \/ SleepElapses

\* every fetch ends within its 10 s timeout, and timers fire
SpecWh ==
  /\ Init /\ [][WhNext]_vars
  /\ WF_vars(\E t \in whTasks, o \in Outcomes : WhResponse(t, o))
  /\ WF_vars(\E t \in whTasks : WhRetry(t))
  /\ WF_vars(SleepElapses)

\* the POSTs made for message mid to agent uid
PostsOf(mid, uid) == {i \in 1..Len(whPosts) : whPosts[i].mid = mid /\ whPosts[i].uid = uid}

\* the dispatch of task t is over after this step
Over(t) == \A u \in whTasks' : ~(u.mid = t.mid /\ u.uid = t.uid)

\* the wait after the failure of attempt 1, 2, 3
BackoffMs == <<1000, 2000, 4000>>

C22_LostOncePerDispatch ==
  [][/\ \A t \in whTasks, o \in Outcomes :
          WhResponse(t, o)
          => metrics'.messagesLost =
               metrics.messagesLost + (IF t.attempt = 3 /\ o \in {"5xx", "error"} THEN 1 ELSE 0)
     /\ metrics'.messagesLost # metrics.messagesLost
        => \E t \in whTasks, o \in Outcomes : WhResponse(t, o)]_vars

\* m1 failed four times and is counted lost once; m2 failed three times and
\* succeeded on the fourth attempt and is not
C22_OneLostOneSent ==
  /\ Cardinality(PostsOf("m1", "u_bob")) = 4 /\ Cardinality(PostsOf("m2", "u_bob")) = 4
  /\ whTasks = {}
  /\ metrics.messagesLost = 1 /\ metrics.messagesSent = 1 /\ metrics.messageRetries = 7

\* ------------------------------------------------------- the rate limiter
MaxSent == 2
RateTokens == {"t_sam", "t_rex"}
RateInstants == {T0 + 30000, T0 + RateWindowMs, T0 + RateWindowMs + 1}

RateTick ==
  /\ \E t \in RateInstants : t > now /\ now' = t
  /\ UNCHANGED <<wsVars, procVars, routeVars, sseVars, redisVars, postVars, upSends, metrics>>

\* the response of request r has ended and the request is gone: its slot
\* serves the next request
PostForget(r) ==
  /\ posts[r].st = "done"
  /\ posts' = [q \in PostIds |-> IF q = r THEN NewPost
                                 ELSE [posts[q] EXCEPT !.after = @ \ {r}]]
  /\ replies' = SelectSeq(replies, LAMBDA q : q # r)
  /\ UNCHANGED <<rateLimits, passed>>
  /\ UNCHANGED <<now, wsVars, procVars, routeVars, sseVars, redisVars, upSends, metrics>>

\* requests of one busy principal, one at a time; the other principal has
\* passed the limiter at most once, and rex sends before the first tick
RateNext ==
  \/ \E t \in RateTokens, valid \in BOOLEAN :
       /\ \A u \in RateTokens \ {t} : Len(passed[authenticateToken(tokenMap, u).userId]) <= 1
       /\ t = "t_rex" => now = T0
       /\ PostMessages(1, t, "none", valid)
  \/ \E ok \in BOOLEAN : (ok => metrics.messagesSent < MaxSent) /\ PostSent(1, ok)
  \/ PostForget(1)
  \/ RateTick

SpecRate == Init /\ [][RateNext]_vars

\* the entries of log inside the closed window of 60 s that starts at from
InWindow(log, from) ==
  Cardinality({i \in 1..Len(log) : from <= log[i] /\ log[i] <= from + RateWindowMs})

LimitOf(u) == IF AgentOf(u).trustLevel = "elevated" THEN 30 ELSE 10

\* C23: of the requests of one principal to POST /byoa/sse/messages, at most
\* 10 (standard) or 30 (elevated) pass the limiter in any window of 60 s; a
\* request that finds the quota of the last 60 s used up is answered 429
\* RATE_LIMITED with a retryAfter, is not forwarded, and uses no quota.
C23_RateLimit ==
  [][/\ \A u \in UserIds : \A i \in 1..Len(passed'[u]) :
          InWindow(passed'[u], passed'[u][i]) <= LimitOf(u)
     /\ \A t \in RateTokens, valid \in BOOLEAN :
          LET u == authenticateToken(tokenMap, t).userId IN
          (PostMessages(1, t, "none", valid) /\ InWindow(passed[u], now - RateWindowMs) >= LimitOf(u))
          => /\ posts'[1].st = "done" /\ posts'[1].status = 429
             /\ posts'[1].body.error = "RATE_LIMITED"
             /\ posts'[1].body.retryAfter \in 0..60
             /\ upSends' = upSends /\ redisQ' = redisQ
             /\ passed' = passed
             /\ InWindow(rateLimits'[u], now - RateWindowMs)
                  = InWindow(rateLimits[u], now - RateWindowMs)]_vars

\* sam has passed five times at T0, five times 30 s later and five times
\* 60.001 s later, and the next request is turned away
C23_SlidingWindowFull ==
  /\ now = T0 + RateWindowMs + 1
  /\ Len(passed["u_sam"]) = 15
  /\ InWindow(passed["u_sam"], T0) = 10 /\ InWindow(passed["u_sam"], T0 + 30000) = 10
  /\ posts[1].st = "done" /\ posts[1].uid = "u_sam" /\ posts[1].status = 429

\* ------------------------------------------------------ a torn snapshot
\* a body whose `agents` is an array with a null entry
SnapTorn == <<CfgLava, Null>>
SyncBodies == Snapshots \cup {SnapTorn}
SyncTokens == {"t_ice", "t_lava"}

\* the value syncFromApi resolves to: false when fetch or res.json() throws,
\* the status is not 2xx, `agents` is no array (ok = FALSE), or the loop of
\* buildTokenIndex throws
syncReturns(ok, snap) == ok /\ \A i \in 1..Len(snap) : snap[i] # Null

SyncNext ==
  \/ \E ok \in BOOLEAN, snap \in SyncBodies : syncFromApi(ok, snap)
  \/ \E r \in PostIds, t \in SyncTokens : Arrivals < MaxArrivals /\ LegacySend(r, t, TRUE)
  \/ \E r \in PostIds : LegacySent(r, TRUE)
  \/ \E s \in Sockets : Arrivals < MaxArrivals /\ WsConnect(s)
  \/ \E s \in Sockets, t \in SyncTokens : WsAuth(s, t)

SpecSync == Init /\ [][SyncNext]_vars

\* C24: after a refresh that failed, authenticate answers every token as it
\* did before; after a refresh that succeeded it answers exactly the tokens
\* of the new snapshot.
C24_FailedRefreshKeepsIndex ==
  [][\A ok \in BOOLEAN, snap \in SyncBodies :
       syncFromApi(ok, snap)
       => IF syncReturns(ok, snap)
          THEN \A t \in Tokens :
                 authenticateToken(tokenMap', t) # Null <=> \E i \in 1..Len(snap) : snap[i].token = t
          ELSE \A t \in Tokens :
                 authenticateToken(tokenMap', t) = authenticateToken(tokenMap, t)]_vars

\* -------------------------------------------------------------- bootstrap
\* the process at the top of index.ts: nothing loaded, nothing connected
BootInit ==
  /\ now = T0
  /\ lastExchange = [p \in Pairs |-> 0]
  /\ exchangeCount = [p \in Pairs |-> [count |-> 0, reset |-> 0]]
  /\ agents = <<>>
  /\ tokenMap = <<>>
  /\ phase = "load"
  /\ socket = [id |-> 0, st |-> "closed"]
  /\ heartbeatInterval = FALSE
  /\ lastPong = 0
  /\ lastHeard = 0
  /\ Constructed

\* index.ts 40-41: loadAgents() and buildTokenIndex(); an unreadable file
\* leaves `agents` empty
loadAgents(readable, file) ==
  /\ phase = "load"
  /\ agents' = IF readable THEN file ELSE <<>>
  /\ tokenMap' = buildTokenIndex(tokenMap, agents')
  /\ phase' = "connect"
  /\ UNCHANGED <<now, wsVars, routeVars, sseVars, redisVars, postVars, upSends, metrics>>
  /\ UNCHANGED bridgeVars

\* index.ts start(), up to the end of `await bridge.connect()`
startConnected(ok) ==
  /\ phase = "connect"
  /\ phase' = IF ok THEN "sync" ELSE "exited"
  /\ socket' = IF ok THEN [id |-> 1, st |-> "connected"] ELSE [id |-> 1, st |-> "closed"]
  /\ heartbeatInterval' = ok
  /\ lastPong' = IF ok THEN now ELSE lastPong
  /\ lastHeard' = IF ok THEN now ELSE lastHeard
  /\ UNCHANGED <<reconnecting, reconnectAttempts, reconnectTimers, pendingConnect, authing, stopped>>
  /\ UNCHANGED <<agents, tokenMap>>
  /\ UNCHANGED <<now, wsVars, routeVars, sseVars, redisVars, postVars, upSends, metrics>>

\* auth.ts startSync after `await syncFromApi()`, and start() after
\* `await startSync()`: whatever the sync gave, the timer is set and the server
\* listens
startSync(ok, snap) ==
  /\ phase = "sync"
  /\ IF ok
     THEN /\ agents' = snap
          /\ tokenMap' = buildTokenIndex(tokenMap, snap)
     ELSE UNCHANGED <<agents, tokenMap>>
  /\ phase' = "listening"
  /\ UNCHANGED <<now, wsVars, routeVars, sseVars, redisVars, postVars, upSends, metrics>>
  /\ UNCHANGED bridgeVars

BootNext ==
  \/ \E readable \in BOOLEAN, file \in Snapshots : loadAgents(readable, file)
  \/ \E ok \in BOOLEAN : startConnected(ok)
  \/ \E ok \in BOOLEAN, snap \in Snapshots : startSync(ok, snap)
  \/ \E ok \in BOOLEAN, snap \in Snapshots : phase = "listening" /\ syncFromApi(ok, snap)
  \/ \E r \in PostIds, t \in SyncTokens :
       phase = "listening" /\ Arrivals < MaxArrivals /\ LegacySend(r, t, TRUE)
  \/ \E r \in PostIds : LegacySent(r, TRUE)
  \/ \E s \in Sockets : phase = "listening" /\ Arrivals < MaxArrivals /\ WsConnect(s)
  \/ \E s \in Sockets, t \in SyncTokens : WsAuth(s, t)

SpecBoot == BootInit /\ [][BootNext]_vars

\* C25: the server starts to listen only with a snapshot from the agent file
\* or from the configuration endpoint; with neither, the process ends.
C25_NoListenWithoutSnapshot ==
  [][(phase # "listening" /\ phase' = "listening") => agents' # <<>>]_vars

\* ------------------------------------------------------- upstream order
\* the place of message mid in the order in which the bridge handed the
\* messages to the router
ArrivalOf(mid) == CHOOSE i \in 1..Len(history) : history[i].id = mid

\* C26: on every socket and on every stream the message frames appear in the
\* order in which their messages arrived from upstream, also when the routing
\* of an earlier message waits for a context fetch or an event-log write while
\* a later message arrives.
C26_UpstreamOrderPerSession ==
  /\ \A s \in Sockets : \A i, j \in 1..Len(wsFrames[s]) :
       (i < j /\ wsFrames[s][i].type = "message" /\ wsFrames[s][j].type = "message")
       => ArrivalOf(wsFrames[s][i].code) < ArrivalOf(wsFrames[s][j].code)
  /\ \A s \in Streams : \A i, j \in MessageIdx(s) :
       i < j => ArrivalOf(sseFrames[s][i].data.id) < ArrivalOf(sseFrames[s][j].data.id)

\* ------------------------------------------------- streams that break
BreakTokens == {"t_rex"}
BreakMsgs == {Msg("alice", "h_alice", "human", "r2", {})}

BreakNext ==
  \/ \E s \in Streams, t \in BreakTokens : SseOpen(s, t, 0)
  \/ \E s \in Streams : SseBreak(s)
  \/ \E s \in Streams : SseClose(s)
  \/ \E m \in BreakMsgs : Upstream(m)
  \/ \E f \in fanouts : FanoutIncr(f)
  \/ \E f \in fanouts : FanoutZadd(f)
  \/ \E f \in fanouts : FanoutWrite(f)

SpecBreak == Init /\ [][BreakNext]_vars

InArray(cs, s) == \E k \in 1..Len(cs) : cs[k] = s

\* C28: a fanout that meets a stream it cannot write to takes that stream out
\* of sseClients, so that it no longer counts toward the cap of two and no
\* longer makes hasSSEClient true; the other streams get the frame.
C28_UnwritableStreamDeregistered ==
  [][\A f \in fanouts :
       (FanoutWrite(f) /\ f.gen = sseGen[f.uid])
       => \A s \in Streams :
            InArray(sseClients[f.uid], s)
            => IF Writable(s)
               THEN Len(sseFrames'[s]) = Len(sseFrames[s]) + 1
               ELSE ~InArray(sseClients'[f.uid], s)]_vars

\* ------------------------------------------- side effects that fail
\* a redis command of fanout f is rejected: fanoutToSSEClient has no catch and
\* index.ts:149 drops its promise, so the rejection is unhandled; the process
\* ends unless it was started with --unhandled-rejections=warn
FanoutFail(f, exits) ==
  /\ f \in fanouts
  /\ Waiting("fan", f.mid, f.uid, 0)
  /\ fanouts' = fanouts \ {f}
  /\ redisQ' = Tail(redisQ)
  /\ phase' = IF exits THEN "exited" ELSE phase
  /\ UNCHANGED <<agents, tokenMap, eventId, eventLog, logExpire, idem>>
  /\ UNCHANGED <<now, wsVars, routeVars, sseVars, postVars, upSends, metrics>>
  /\ UNCHANGED bridgeVars

IsoTokens == {"t_rex"}
IsoMsgs == {Msg("alice", "h_alice", "human", "r2", {"bob"})}

IsoNext ==
  \/ \E s \in Streams, t \in IsoTokens : phase = "listening" /\ SseOpen(s, t, 0)
  \/ \E s \in Streams : phase = "listening" /\ SseClose(s)
  \/ \E m \in IsoMsgs : phase = "listening" /\ Upstream(m)
  \/ \E f \in fanouts : phase = "listening" /\ FanoutIncr(f)
  \/ \E f \in fanouts : phase = "listening" /\ FanoutZadd(f)
  \/ \E f \in fanouts : phase = "listening" /\ FanoutWrite(f)
  \/ \E f \in fanouts, exits \in BOOLEAN : phase = "listening" /\ FanoutFail(f, exits)
  \/ \E t \in whTasks, o \in {"2xx", "4xx"} : phase = "listening" /\ WhResponse(t, o)

SpecIso == Init /\ [][IsoNext]_vars

\* agent a is a candidate of the webhook loop for msg
WhCandidate(msg, a) ==
  /\ a.username # msg.senderUsername
  /\ Mentioned(msg, a)
  /\ ~MapHas(clients, a.userId)
  /\ a.delivery = "openclaw-inject" \/ a.webhookUrl # "null"

\* C27: a side effect that fails for one candidate of a message leaves the
\* gateway routing: the process stays up for the messages that follow, and
\* every message whose routing is over has reached its webhook candidates.
C27_FailureIsolated ==
  [][/\ \A f \in fanouts, exits \in BOOLEAN : FanoutFail(f, exits) => phase' = "listening"
     /\ \A i \in 1..Len(history') :
          routes'[i].pc = "done"
          => \A k \in 1..Len(getWebhookAgents(tokenMap)) :
               LET a == getWebhookAgents(tokenMap)[k] IN
               WhCandidate(history'[i], a)
               => \E j \in 1..Len(whPosts') :
                    whPosts'[j].mid = history'[i].id /\ whPosts'[j].uid = a.userId]_vars

\* ------------------------------------------------- the upstream bridge
MaxReconnects == 5
MaxPending == 2
MaxBridgeSockets == 3
MaxBeats == 1
HeartbeatMs == 25000
SilentMs == 60000
baseReconnectDelay == 2000
maxReconnectDelay == 30000

\* a backoff that stays at the base delay
ReconnectDelayFlat(n) == baseReconnectDelay

\* Math.min(baseReconnectDelay * Math.pow(2, reconnectAttempts), maxReconnectDelay)
ReconnectDelay(n) ==
  IF baseReconnectDelay * 2^n < maxReconnectDelay
  THEN baseReconnectDelay * 2^n ELSE maxReconnectDelay

\* the fields scheduleReconnect reads and writes
BridgeFlags == [rec |-> reconnecting, n |-> reconnectAttempts, timers |-> reconnectTimers]

\* scheduleReconnect(clearJwt): nothing while `reconnecting`, else one more timer
\* (the cached token that clearJwt drops is not part of the state)
scheduleReconnect(B) ==
  IF B.rec THEN B
  ELSE [rec |-> TRUE, n |-> B.n + 1, timers |-> Append(B.timers, ReconnectDelay(B.n))]

\* the catch of doReconnect: reconnecting = false; scheduleReconnect(true)
reconnectFailed(B) == scheduleReconnect([B EXCEPT !.rec = FALSE])

SetFlags(B) ==
  /\ reconnecting' = B.rec
  /\ reconnectAttempts' = B.n
  /\ reconnectTimers' = B.timers

BridgeOther == <<wsVars, regVars, routeVars, sseVars, redisVars, postVars, upSends, metrics>>
BridgeRest == <<now, BridgeOther>>

\* socket.on('disconnect') of the current socket
BridgeDisconnect ==
  /\ socket.st = "connected"
  /\ socket' = [socket EXCEPT !.st = "closed"]
  /\ heartbeatInterval' = FALSE
  /\ SetFlags(scheduleReconnect(BridgeFlags))
  /\ UNCHANGED <<pendingConnect, authing, beatVars>>
  /\ UNCHANGED BridgeRest

\* socket.on('connect') of the current socket, in time or after the 10 s
\* timer of its createSocket has rejected
BridgeConnect ==
  /\ socket.st = "connecting"
  /\ socket' = [socket EXCEPT !.st = "connected"]
  /\ reconnectAttempts' = 0
  /\ reconnecting' = FALSE
  /\ heartbeatInterval' = TRUE
  /\ pendingConnect' = pendingConnect \ {socket.id}
  /\ lastPong' = now
  /\ lastHeard' = now
  /\ UNCHANGED <<reconnectTimers, authing, stopped>>
  /\ UNCHANGED BridgeRest

\* socket.on('connect_error') of the current socket: the first one rejects the
\* promise of createSocket, which doReconnect catches
BridgeConnectError ==
  /\ socket.st = "connecting"
  /\ socket' = [socket EXCEPT !.st = "closed"]
  /\ IF socket.id \in pendingConnect
     THEN /\ pendingConnect' = pendingConnect \ {socket.id}
          /\ SetFlags(reconnectFailed(BridgeFlags))
          /\ UNCHANGED heartbeatInterval
     ELSE /\ heartbeatInterval' = FALSE
          /\ SetFlags(scheduleReconnect(BridgeFlags))
          /\ UNCHANGED pendingConnect
  /\ UNCHANGED <<authing, beatVars>>
  /\ UNCHANGED BridgeRest

\* the 10 s timer of createSocket for socket k, not settled: it rejects, and
\* doReconnect catches; the socket itself is left as it is
ConnectTimeout(k) ==
  /\ k \in pendingConnect
  /\ pendingConnect' = pendingConnect \ {k}
  /\ SetFlags(reconnectFailed(BridgeFlags))
  /\ UNCHANGED <<socket, heartbeatInterval, authing, beatVars>>
  /\ UNCHANGED BridgeRest

\* a timer of scheduleReconnect fires: doReconnect runs up to `await authenticate()`
doReconnect(i) ==
  /\ i \in 1..Len(reconnectTimers)
  /\ reconnectTimers' = SubSeq(reconnectTimers, 1, i - 1)
                        \o SubSeq(reconnectTimers, i + 1, Len(reconnectTimers))
  /\ authing' = authing + 1
  /\ UNCHANGED <<socket, reconnecting, reconnectAttempts, heartbeatInterval, pendingConnect>>
  /\ UNCHANGED beatVars
  /\ UNCHANGED BridgeRest

\* the socket createSocket makes: an id no unsettled promise refers to
FreshSocket ==
  CHOOSE k \in 1..MaxBridgeSockets :
    /\ k \notin pendingConnect \cup {socket.id}
    /\ \A j \in 1..MaxBridgeSockets : j \notin pendingConnect \cup {socket.id} => k <= j

\* doReconnect after `await authenticate()`: createSocket drops the old socket
\* with its listeners and opens a new one, or the catch schedules again
doReconnectAuthed(ok) ==
  /\ authing > 0
  /\ authing' = authing - 1
  /\ IF ok
     THEN /\ \E k \in 1..MaxBridgeSockets : k \notin pendingConnect \cup {socket.id}
          /\ socket' = [id |-> FreshSocket, st |-> "connecting"]
          /\ heartbeatInterval' = FALSE
          /\ pendingConnect' = pendingConnect \cup {FreshSocket}
          /\ UNCHANGED <<reconnecting, reconnectAttempts, reconnectTimers>>
     ELSE /\ SetFlags(reconnectFailed(BridgeFlags))
          /\ UNCHANGED <<socket, heartbeatInterval, pendingConnect>>
  /\ UNCHANGED beatVars
  /\ UNCHANGED BridgeRest

\* how late the interval callback can run: on time, or after the event loop
\* or the whole process stood still for 40 s
BeatLate == {0, 40000}

\* the heartbeat interval fires, `late` ms after it was due
HeartbeatTick(late) ==
  /\ heartbeatInterval
  /\ now' = now + HeartbeatMs + late
  /\ IF socket.st # "connected"
     THEN /\ heartbeatInterval' = FALSE
          /\ SetFlags(scheduleReconnect(BridgeFlags))
          /\ UNCHANGED <<socket, lastPong>>
     ELSE IF now' - lastPong > SilentMs
     THEN /\ heartbeatInterval' = FALSE
          /\ socket' = [socket EXCEPT !.st = "closed"]
          /\ SetFlags(scheduleReconnect(scheduleReconnect(BridgeFlags)))
          /\ UNCHANGED lastPong
     ELSE /\ lastPong' = now'
          /\ UNCHANGED <<heartbeatInterval, socket, reconnecting, reconnectAttempts, reconnectTimers>>
  /\ UNCHANGED <<pendingConnect, authing, lastHeard, stopped>>
  /\ UNCHANGED BridgeOther

\* reconnects pending (timer set) or in flight (doReconnect running)
Reconnects == Len(reconnectTimers) + authing + Cardinality(pendingConnect)

BridgeNext ==
  \/ Reconnects < MaxPending /\ BridgeDisconnect
  \/ BridgeConnect
  \/ reconnectAttempts < MaxReconnects /\ BridgeConnectError
  \/ \E k \in pendingConnect : reconnectAttempts < MaxReconnects /\ ConnectTimeout(k)
  \/ \E i \in 1..Len(reconnectTimers) : doReconnect(i)
  \/ \E ok \in BOOLEAN : (~ok => reconnectAttempts < MaxReconnects) /\ doReconnectAuthed(ok)
  \/ \E late \in BeatLate :
       Reconnects < MaxPending /\ now < T0 + MaxBeats * HeartbeatMs /\ HeartbeatTick(late)

\* timers fire; authenticate() and connection attempts end
SpecBridge ==
  /\ Init /\ [][BridgeNext]_vars
  /\ WF_vars(\E i \in 1..Len(reconnectTimers) : doReconnect(i))
  /\ WF_vars(\E ok \in BOOLEAN : (~ok => reconnectAttempts < MaxReconnects) /\ doReconnectAuthed(ok))
  /\ WF_vars(BridgeConnect \/ (reconnectAttempts < MaxReconnects /\ BridgeConnectError)
             \/ \E k \in pendingConnect : reconnectAttempts < MaxReconnects /\ ConnectTimeout(k))

\* C29: at most one reconnect is pending or in flight at any time.
C29_OneReconnectAtATime == Reconnects <= 1

\* C30: a reconnect is scheduled with delay min(2 s * 2^n, 30 s), n the count of
\* attempts since the last successful connect, which a connect resets to 0;
\* while the bridge is not connected a reconnect is pending or in flight, and
\* under fairness a closed socket leads to a running reconnect attempt.
C30_DisconnectRecovered ==
  /\ [][/\ Len(reconnectTimers') > Len(reconnectTimers)
           => /\ reconnectAttempts' = reconnectAttempts + 1
              /\ reconnectTimers'[Len(reconnectTimers')]
                   = CHOOSE d \in {2000 * 2^reconnectAttempts, 30000} :
                       d <= 2000 * 2^reconnectAttempts /\ d <= 30000
        /\ (socket.st # "connected" /\ socket'.st = "connected")
           => reconnectAttempts' = 0]_vars
  /\ [](socket.st # "connected" => Reconnects >= 1)
  /\ (socket.st = "closed" ~> authing > 0)

\* the backoff has reached its cap after five failed attempts in a row
C30_BackoffAtCap ==
  /\ socket.st = "closed"
  /\ reconnectAttempts = 5
  /\ reconnectTimers = <<30000>>

\* ------------------------------------------------- the silent connection
MaxSilentBeats == 4

\* a packet of the chat server arrives on the connected socket (a message, an
\* engine.io ping); no listener of the bridge records the arrival
UpstreamPacket ==
  /\ socket.st = "connected"
  /\ lastHeard # now
  /\ lastHeard' = now
  /\ UNCHANGED <<socket, reconnecting, reconnectAttempts, heartbeatInterval,
                 reconnectTimers, pendingConnect, authing, lastPong, stopped>>
  /\ UNCHANGED BridgeRest

BeatNext ==
  \/ \E late \in BeatLate : now < T0 + MaxSilentBeats * HeartbeatMs /\ HeartbeatTick(late)
  \/ UpstreamPacket
  \/ Reconnects < 1 /\ BridgeDisconnect
  \/ \E i \in 1..Len(reconnectTimers) : doReconnect(i)
  \/ doReconnectAuthed(TRUE)
  \/ BridgeConnect

SpecBeat == Init /\ [][BeatNext]_vars

\* C31: when the heartbeat runs on a connected socket on which nothing has
\* arrived from the chat server for more than 60 s, the bridge closes the socket
\* and a reconnect is scheduled.
C31_SilentConnectionClosed ==
  [][(/\ now' > now
      /\ socket.st = "connected"
      /\ heartbeatInterval
      /\ now' - lastHeard > 60000)
     => /\ socket'.st = "closed"
        /\ Len(reconnectTimers') >= 1]_vars

\* ------------------------------------------- the authentication deadline
MaxDeadline == 2
DeadlineSockets == 1..MaxDeadline
DeadlineTokens == {"t_ice", "t_bad"}

DeadlineNext ==
  \/ \E s \in DeadlineSockets : WsConnect(s)
  \/ \E s \in DeadlineSockets : WsAuthTimeout(s)
  \/ \E s \in DeadlineSockets, t \in DeadlineTokens : WsAuth(s, t)
  \/ \E s \in DeadlineSockets : WsAuthOk(s)
  \/ \E s \in DeadlineSockets : WsNotAuthenticated(s)
  \/ \E s \in DeadlineSockets : WsCloseEvent(s)

\* the timer of setTimeout(..., 10_000) fires unless it is cleared
SpecDeadline ==
  /\ Init /\ [][DeadlineNext]_vars
  /\ \A s \in DeadlineSockets : WF_vars(WsAuthTimeout(s))

Unauthed(s) == wsState[s] = "OPEN" /\ wsClient[s] = Null

\* C32: an open connection that has not authenticated has its deadline still
\* ahead; the deadline closes it with auth_error and 4001, a rejected token with
\* auth_error and 4003; and no connection stays open and unauthenticated.
C32_AuthDeadline ==
  /\ [](\A s \in DeadlineSockets : Unauthed(s) => wsTimer[s])
  /\ [][\A s \in DeadlineSockets :
          (Unauthed(s) /\ ~wsTimer'[s] /\ wsClient'[s] = Null /\ wsState'[s] # "CLOSED")
          => /\ wsState'[s] = "CLOSING"
             /\ wsFrames'[s] = Append(wsFrames[s], wsFrames'[s][Len(wsFrames'[s])])
             /\ wsFrames'[s][Len(wsFrames'[s])].type = "auth_error"
             /\ wsCode'[s] = IF wsRecv' > wsRecv THEN 4003 ELSE 4001]_vars
  /\ \A s \in DeadlineSockets : Unauthed(s) ~> ~Unauthed(s)

\* one connection was closed by the deadline and another for a rejected token
C32_BothCloseCodes ==
  \E s, t \in Sockets :
    /\ wsCode[s] = 4001 /\ wsState[s] = "CLOSING"
    /\ wsCode[t] = 4003 /\ wsState[t] = "CLOSING"
    /\ wsFrames[s][Len(wsFrames[s])].type = "auth_error"

\* -------------------------------------------- one send per idempotency key
\* C33: for a principal and an idempotency key, bridge.sendAsAgent is called at
\* most once, whatever the interleaving of the requests that carry them.
C33_OneSendPerKey ==
  \A c, d \in upSends :
    (/\ c.via = "post" /\ d.via = "post"
     /\ posts[c.id].key # "none"
     /\ SameKey(c.id, d.id))
    => c = d

\* ------------------------------------------------ replay and live fanout
\* C34: no stream is written two message events with the same event id.
C34_NoEventTwice ==
  \A s \in Streams : \A i, j \in 1..Len(sseFrames[s]) :
    (/\ sseFrames[s][i].event = "message"
     /\ sseFrames[s][j].event = "message"
     /\ sseFrames[s][i].id = sseFrames[s][j].id)
    => i = j

\* ---------------------------------------------- the cursor under two routes
\* message i was handed to agent uid by webhook or by local inject
HandedTo(i, uid) ==
  [mid |-> history[i].id, uid |-> uid] \in WhDeliveries \cup InjectDeliveries

\* C35: when two mentions of one webhook or local-inject agent in one room were
\* received in the order M1, M2 and both have been routed to it, the read
\* cursor of the agent for the room is M2.
C35_CursorAtLastMention ==
  \A i, j \in 1..Len(history) : \A uid \in UserIds :
    (/\ i < j
     /\ history[i].roomId = history[j].roomId
     /\ \A k \in 1..Len(history) : routes[k].pc = "done"
     /\ HandedTo(i, uid) /\ HandedTo(j, uid)
     /\ \A k \in (j + 1)..Len(history) : ~HandedTo(k, uid))
    => readState[<<uid, history[j].roomId>>] = history[j].id

\* ---------------------------------------------------- auth_ok comes first
\* C36: on every socket, a routed message frame is written only after the
\* auth_ok frame of that socket.
C36_AuthOkBeforeMessages ==
  \A s \in Sockets : \A i \in 1..Len(wsFrames[s]) :
    wsFrames[s][i].type = "message"
    => \E j \in 1..(i - 1) : wsFrames[s][j].type = "auth_ok"

\* ------------------------------------------- frames before authentication
\* ws.on('message') for the frame `null`: JSON.parse gives null, `event.type`
\* throws in the async listener and nobody handles the rejected promise; the
\* runtime ends the process, or only warns when it was started to do so
WsNullFrame(s, exits) ==
  /\ CanReceive(s)
  /\ wsRecv' = wsRecv + 1
  /\ phase' = IF exits THEN "exited" ELSE phase
  /\ UNCHANGED <<agents, tokenMap, bridgeVars>>
  /\ UNCHANGED <<wsState, wsClient, wsTimer, wsRooms, wsSending, wsFrames, wsCode, clients,
                 clientSeq>>
  /\ UNCHANGED <<now, routeVars, sseVars, redisVars, postVars, upSends, metrics>>

UnauthNext ==
  \/ \E s \in DeadlineSockets : phase = "listening" /\ WsConnect(s)
  \/ \E s \in DeadlineSockets, t \in DeadlineTokens : phase = "listening" /\ WsAuth(s, t)
  \/ \E s \in DeadlineSockets : phase = "listening" /\ WsAuthOk(s)
  \/ \E s \in DeadlineSockets : phase = "listening" /\ WsNotAuthenticated(s)
  \/ \E s \in DeadlineSockets : phase = "listening" /\ WsInvalidJson(s)
  \/ \E s \in DeadlineSockets, exits \in BOOLEAN : phase = "listening" /\ WsNullFrame(s, exits)
  \/ \E s \in DeadlineSockets : phase = "listening" /\ WsMessage(s, TRUE)
  \/ \E s \in DeadlineSockets : phase = "listening" /\ WsSendDone(s, TRUE)

SpecUnauth == Init /\ [][UnauthNext]_vars

\* the frames written to socket s in this step are error frames
OnlyErrorFrames(s) ==
  /\ Len(wsFrames'[s]) >= Len(wsFrames[s])
  /\ \A i \in 1..Len(wsFrames'[s]) :
       IF i <= Len(wsFrames[s]) THEN wsFrames'[s][i] = wsFrames[s][i]
       ELSE wsFrames'[s][i].type = "error"

\* C37: bridge.sendAsAgent is called only for sockets that have authenticated;
\* a frame that arrives while no socket has authenticated, and is not an auth
\* frame, writes nothing but error frames, leaves `clients` as it is, sends
\* nothing upstream and leaves the gateway running.
C37_NoSendBeforeAuth ==
  /\ [](\A c \in upSends : c.via = "ws" => wsClient[c.id] # Null)
  /\ [][(/\ wsRecv' > wsRecv
         /\ \A s \in Sockets : wsClient[s] = Null /\ wsClient'[s] = Null
         /\ metrics'.authFailures = metrics.authFailures)
        => /\ clients' = clients
           /\ upSends' = upSends
           /\ wsSending' = wsSending
           /\ \A s \in Sockets : OnlyErrorFrames(s)
           /\ phase' = phase]_vars

\* ------------------------------------------------------ graceful shutdown
\* a process that goes on after the handler
processStays(ph) == ph

\* process.exit(0): no timer and no promise of the process runs afterwards
processExit(ph) == "exited"

\* the sockets `clients` holds, the streams `sseClients` holds
InClients(s) == \E i \in 1..Len(clients) : clients[i].val.sock = s
InSseClients(s) == \E u \in UserIds : InArray(sseClients[u], s)

\* index.ts shutdown(), on SIGTERM or SIGINT: bridge.disconnect() drops the
\* socket with its listeners and clears `reconnecting`, the timers set by
\* scheduleReconnect and a running doReconnect are left alone; shutdownSSE()
\* ends the streams; the sockets are closed with 1001; the process exits
shutdown ==
  /\ phase = "listening"
  /\ heartbeatInterval' = FALSE
  /\ reconnecting' = FALSE
  /\ socket' = [id |-> 0, st |-> "closed"]
  /\ stopped' = TRUE
  /\ UNCHANGED <<reconnectAttempts, reconnectTimers, pendingConnect, authing, lastPong,
                 lastHeard>>
  /\ sseFrames' = [s \in Streams |->
                     IF InSseClients(s) /\ Writable(s)
                     THEN Append(sseFrames[s], formatSSE(0, "shutdown", "-"))
                     ELSE sseFrames[s]]
  /\ sseState' = [s \in Streams |-> IF InSseClients(s) THEN "ended" ELSE sseState[s]]
  /\ sseClients' = [u \in UserIds |-> <<>>]
  /\ wsState' = [s \in Sockets |->
                   IF InClients(s) /\ wsState[s] = "OPEN" THEN "CLOSING" ELSE wsState[s]]
  /\ wsCode' = [s \in Sockets |->
                  IF InClients(s) /\ wsState[s] = "OPEN" THEN 1001 ELSE wsCode[s]]
  /\ phase' = processExit(phase)
  /\ UNCHANGED <<agents, tokenMap, sseAgent, sseGen, sseReplay>>
  /\ UNCHANGED <<wsClient, wsTimer, wsRooms, wsSending, wsRecv, wsFrames, clients, clientSeq>>
  /\ UNCHANGED <<now, routeVars, redisVars, postVars, upSends, metrics>>

StopNext ==
  \/ shutdown
  \/ phase = "listening" /\ Reconnects < MaxPending /\ BridgeDisconnect
  \/ phase = "listening" /\ BridgeConnect
  \/ phase = "listening" /\ reconnectAttempts < MaxReconnects /\ BridgeConnectError
  \/ \E k \in pendingConnect :
       phase = "listening" /\ reconnectAttempts < MaxReconnects /\ ConnectTimeout(k)
  \/ \E i \in 1..Len(reconnectTimers) : phase = "listening" /\ doReconnect(i)
  \/ \E ok \in BOOLEAN :
       phase = "listening" /\ (~ok => reconnectAttempts < MaxReconnects) /\ doReconnectAuthed(ok)

SpecStop == Init /\ [][StopNext]_vars

\* C38: once bridge.disconnect() has been called, no reconnect timer fires, no
\* doReconnect goes on and no upstream socket is created.
C38_NoReconnectAfterDisconnect ==
  [][stopped => UNCHANGED <<socket, reconnectTimers, authing, pendingConnect>>]_vars

\* disconnect() was called with a reconnect timer still set and a doReconnect
\* still running
C38_StoppedWithTimerSet ==
  stopped /\ phase = "exited" /\ Len(reconnectTimers) >= 1 /\ authing + Cardinality(pendingConnect) >= 1

\* ------------------------------------------------- coming back after a 429
\* sam posts until it is turned away; the request that was turned away stays in
\* slot 1 and sam's next request is request 2
RetryNext ==
  \/ \E valid \in BOOLEAN : PostMessages(1, "t_sam", "none", valid)
  \/ \E ok \in BOOLEAN : (ok => metrics.messagesSent < MaxSent) /\ PostSent(1, ok)
  \/ posts[1].status # 429 /\ PostForget(1)
  \/ posts[1].status = 429 /\ PostMessages(2, "t_sam", "none", FALSE)
  \/ RateTick

SpecRetry == Init /\ [][RetryNext]_vars

\* C39: a principal that was turned away at time t with retryAfter = r > 0 and
\* sends its next request at t + r seconds passes the limiter.
C39_RetryAfterSuffices ==
  [][(/\ posts[1].status = 429
      /\ posts[2].st = "new" /\ posts'[2].st # "new"
      /\ posts[1].body.retryAfter > 0
      /\ now = posts[1].at + 1000 * posts[1].body.retryAfter)
     => posts'[2].status # 429]_vars


\* ------------------------------------------------- the window of one pair
MaxPairTicks == 4
PairSteps == {10000, CooldownMs}

\* time passes between two calls of the loop guard
PairTick ==
  /\ \E d \in PairSteps : /\ now + d <= T0 + MaxPairTicks * CooldownMs
                          /\ now' = now + d
  /\ UNCHANGED <<wsVars, procVars, routeVars, sseVars, redisVars, postVars, upSends, metrics>>

\* ice writes to ice, rex and bob, as often as it likes
PairNext ==
  \/ \E tr \in {"standard", "elevated"}, ia \in BOOLEAN, T \in FnTargets :
       GuardCall(tr, ia, "ice", T)
  \/ PairTick

SpecPair == Init /\ [][PairNext]_vars

\* the entry of pair p as line 33 of shouldDeliver takes it at this instant
WindowNow(p) ==
  IF now > exchangeCount[p].reset THEN [count |-> 0, reset |-> now + PairWindowMs]
  ELSE exchangeCount[p]

\* C40: the exchange counter of a pair never exceeds 3, and whenever the
\* cooldown check of a pair passes, its counter is below the cap of 5: the
\* rate-cap branch never denies a delivery.
C40_CounterAtMostThree ==
  \A p \in Pairs :
    /\ exchangeCount[p].count <= 3
    /\ now - lastExchange[p] >= CooldownMs => WindowNow(p).count < PairCap

\* ice and rex exchanged at T0, T0 + 30 s and T0 + 60 s: the counter is 3
C40_ThreeInOneWindow ==
  /\ exchangeCount[{"ice", "rex"}] = [count |-> 3, reset |-> T0 + PairWindowMs]
  /\ lastExchange[{"ice", "rex"}] = T0 + PairWindowMs

====
